---------------------------- MODULE Spec2Model ----------------------------
(***************************************************************************)
(* Collision core of the side-scrolling shooter: rectangles, the Entity    *)
(* wrapper (sprite / position / collider), the overlap and displacement    *)
(* math, the contact generator gather_contacts, and handle_contact with    *)
(* its restitution pass and its hp rules.                                  *)
(*                                                                         *)
(* Coordinates are i32 and extents u16 in the source.  The model keeps     *)
(* them far from the i32 limits, so x + w never wraps and the assertion of *)
(* separating_axis can only fail on arguments given out of order.          *)
(***************************************************************************)
EXTENDS Integers, Sequences, FiniteSets

VARIABLES
    axisArgs,   \* arguments of one call of separating_axis
    axisRet,    \* its outcome
    rectArgs,   \* arguments of one call of rect_displacement
    rectRet,    \* its outcome
    entArgs,    \* arguments of one call of Entity::new
    ent,        \* the entity built from them
    nmoves,     \* number of Entity::move_pos calls made on ent
    terrains,   \* Vec<Entity<Terrain>>
    mobiles,    \* Vec<Entity<Mobile>>
    walls,      \* Vec<Wall>
    projs,      \* Vec<Projectile>
    contacts,   \* Vec<Contact>, the buffer handed to gather_contacts
    into0,      \* the buffer as it was when gather_contacts was called
    pc,         \* position in the contact pipeline
    ci,         \* number of contacts the running loop has gone through
    last,       \* the step taken last, and the contact it was about
    prev,       \* pools and buffer as they were before that step
    entry,      \* pools and buffer as handle_contact received them
    ret,        \* what handle_contact returned
    game        \* GameState without the pools: stage, counters, score

hvars == <<ci, last, prev, entry, ret>>

vars == <<axisArgs, axisRet, rectArgs, rectRet, entArgs, ent, nmoves,
          terrains, mobiles, walls, projs, contacts, into0, pc,
          ci, last, prev, entry, ret, game>>

(***************************************************************************)
(* Bounds of the model.                                                    *)
(***************************************************************************)
\* separating_axis is called with end points in -AxisMax..AxisMax
AxisMax == 2
\* rect_displacement is called on rectangles with origin in 0..RectPos
RectPos == 2
\* ... and extents in 0..RectExt
RectExt == 2
\* Entity::new is called with positions in 0..EntPos on both axes
EntPos == 1
\* Entity::move_pos is called with dx, dy in -MaxDelta..MaxDelta
MaxDelta == 1
\* ... at most MaxMoves times on one entity
MaxMoves == 2
\* the pools hold at most MaxEntities colliders between them
MaxEntities == 2
\* the colliders of the pools have their origin in 0..MaxPos on both axes
MaxPos == 1
\* restitute is run against at most MaxWalls walls
MaxWalls == 2
\* extents <<w, h>> of the colliders of the pools: wide, tall, and of width 0
Sizes == {<<2, 1>>, <<1, 2>>, <<0, 1>>}

(***************************************************************************)
(* Program constants.                                                      *)
(***************************************************************************)
PlayerHp == 100
ProjectileHp == 4
RockHp == 40
\* hit points of an enemy mobile
EnemyHp == 50

Min(a, b) == IF a <= b THEN a ELSE b
Max(a, b) == IF a >= b THEN a ELSE b
Abs(a) == IF a < 0 THEN 0 - a ELSE a

(***************************************************************************)
(* types::Rect as the collision code uses it: i32 origin, u16 extents.     *)
(***************************************************************************)
Rect(x, y, w, h) == [x |-> x, y |-> y, w |-> w, h |-> h]

(***************************************************************************)
(* Collider::move_pos and Collider::set_pos: the four implementations      *)
(* (Terrain, Mobile, Projectile, Wall) are the same two assignments to     *)
(* rect.x and rect.y.                                                      *)
(***************************************************************************)
Collider_move_pos(c, dx, dy) ==
    [c EXCEPT !.rect.x = @ + dx, !.rect.y = @ + dy]

Collider_set_pos(c, x, y) ==
    [c EXCEPT !.rect.x = x, !.rect.y = y]

(***************************************************************************)
(* Constructors of the collider kinds.                                     *)
(***************************************************************************)
Terrain_new(rect, created_at, destructible, hp) ==
    [rect |-> rect, created_at |-> created_at,
     destructible |-> destructible, hp |-> hp]

Mobile_enemy(rect, vx, vy, hp) ==
    [rect |-> rect, vx |-> vx, vy |-> vy, hp |-> hp, is_player |-> FALSE]

\* Mobile::player with the rectangle given whole: the source fixes the extents
\* to 36 x 25, the model draws them with the origin.
Mobile_player(rect) ==
    [rect |-> rect, vx |-> 0, vy |-> 0, hp |-> PlayerHp, is_player |-> TRUE]

\* Projectile::new leaves vx = 0.0, vy = -10.0 and hp = 4; the rectangle is
\* drawn by the model instead of being derived from the parent mobile.
Projectile_at(rect) ==
    [rect |-> rect, vx |-> 0, vy |-> -10, hp |-> ProjectileHp]

Wall_new(rect) == [rect |-> rect]

\* hits counts the "hit" inputs given to the sprite's animation_sm
Sprite_at(position) == [position |-> position, hits |-> 0]

(***************************************************************************)
(* Entity<T>: sprite, position (Vec2i as <<x, y>>) and collider.           *)
(***************************************************************************)
\* faulty variant of align: the collider keeps the position it came with
Entity_align_nocollider(e) ==
    [e EXCEPT !.sprite.position = e.position]

Entity_align(e) ==
    LET s0 == IF e.sprite.position[1] # e.position[1]
              THEN [e EXCEPT !.sprite.position[1] = e.position[1]]
              ELSE e
        s1 == IF s0.sprite.position[2] # s0.position[2]
              THEN [s0 EXCEPT !.sprite.position[2] = s0.position[2]]
              ELSE s0
    IN  [s1 EXCEPT !.collider =
            Collider_set_pos(@, s1.position[1], s1.position[2])]

Entity_new(sprite, position, collider) ==
    Entity_align([sprite |-> sprite, position |-> position,
                  collider |-> collider])

\* faulty variant of move_pos: the sprite stays where it is
Entity_move_pos_collider_only(e, dx, dy) ==
    [e EXCEPT !.collider = Collider_move_pos(@, dx, dy)]

\* moves the sprite and the collider; self.position is not assigned
Entity_move_pos(e, dx, dy) ==
    [e EXCEPT !.sprite.position = <<@[1] + dx, @[2] + dy>>,
              !.collider = Collider_move_pos(@, dx, dy)]

\* the struct literal the spawners use (main.rs, assets.rs): all three
\* positions written equal by hand
Entity_literal(pos, collider) ==
    [sprite |-> Sprite_at(pos), position |-> pos, collider |-> collider]

(***************************************************************************)
(* Overlap and displacement math.                                          *)
(***************************************************************************)
\* faulty variant: intervals that only touch count as overlapping
separating_axis_strict(ax1, ax2, bx1, bx2) ==
    ax2 < bx1 \/ bx2 < ax1

\* the value returned when the assertion holds
separating_axis(ax1, ax2, bx1, bx2) ==
    ax2 <= bx1 \/ bx2 <= ax1

\* assert!(ax1 <= ax2 && bx1 <= bx2) fails
separating_axis_panics(ax1, ax2, bx1, bx2) ==
    ~(ax1 <= ax2 /\ bx1 <= bx2)

None == [some |-> FALSE, v |-> <<0, 0>>]
Some(v) == [some |-> TRUE, v |-> v]

\* faulty variant: an overlap of extent 0 is taken for an overlap
rect_displacement_nonneg(r1, r2) ==
    LET x_overlap == Min(r1.x + r1.w, r2.x + r2.w) - Max(r1.x, r2.x)
        y_overlap == Min(r1.y + r1.h, r2.y + r2.h) - Max(r1.y, r2.y)
    IN  IF x_overlap >= 0 /\ y_overlap >= 0
        THEN IF Abs(x_overlap) > Abs(y_overlap)
             THEN Some(<<0, y_overlap>>)
             ELSE Some(<<x_overlap, 0>>)
        ELSE None

\* faulty variant: resolves along the axis of the deeper penetration
rect_displacement_deeper(r1, r2) ==
    LET x_overlap == Min(r1.x + r1.w, r2.x + r2.w) - Max(r1.x, r2.x)
        y_overlap == Min(r1.y + r1.h, r2.y + r2.h) - Max(r1.y, r2.y)
    IN  IF x_overlap > 0 /\ y_overlap > 0
        THEN IF Abs(x_overlap) < Abs(y_overlap)
             THEN Some(<<0, y_overlap>>)
             ELSE Some(<<x_overlap, 0>>)
        ELSE None

rect_displacement(r1, r2) ==
    LET x_overlap == Min(r1.x + r1.w, r2.x + r2.w) - Max(r1.x, r2.x)
        y_overlap == Min(r1.y + r1.h, r2.y + r2.h) - Max(r1.y, r2.y)
    IN  IF x_overlap > 0 /\ y_overlap > 0
        THEN IF Abs(x_overlap) > Abs(y_overlap)
             THEN Some(<<0, y_overlap>>)
             ELSE Some(<<x_overlap, 0>>)
        ELSE None


(***************************************************************************)
(* ColliderID and Contact.  Indices count from 0 as in the source; the     *)
(* pools are sequences, so pool[i + 1] is the element of index i.          *)
(***************************************************************************)
TerrainID(i) == [kind |-> "Terrain", idx |-> i]
MobileID(i) == [kind |-> "Mobile", idx |-> i]
ProjectileID(i) == [kind |-> "Projectile", idx |-> i]
WallID(i) == [kind |-> "Wall", idx |-> i]

Contact(a, b, mtv) == [a |-> a, b |-> b, mtv |-> mtv]

\* the index pairs <<ai, bi>> of "for ai in 0..na { for bi in 0..nb {" in
\* the order the loops visit them
LoopPairs(na, nb) ==
    [k \in 1..(na * nb) |-> <<(k - 1) \div nb, (k - 1) % nb>>]

\* the condition guarding every push: neither axis separates.  The extents
\* are not negative, so the assertion of separating_axis holds here.
NoSeparatingAxis(a, b) ==
    /\ ~separating_axis(a.x, a.x + a.w, b.x, b.x + b.w)
    /\ ~separating_axis(a.y, a.y + a.h, b.y, b.y + b.h)

\* mobiles against mobiles, without the skip(ai + 1)
MobileMobileContacts_noskip(ms) ==
    LET hit == SelectSeq(LoopPairs(Len(ms), Len(ms)),
                 LAMBDA p : NoSeparatingAxis(ms[p[1] + 1].collider.rect,
                                             ms[p[2] + 1].collider.rect))
    IN  [k \in 1..Len(hit) |->
            Contact(MobileID(hit[k][1]), MobileID(hit[k][2]), <<0, 0>>)]

\* collide mobiles against mobiles
MobileMobileContacts(ms) ==
    LET hit == SelectSeq(LoopPairs(Len(ms), Len(ms)),
                 LAMBDA p : /\ p[2] >= p[1] + 1
                            /\ NoSeparatingAxis(ms[p[1] + 1].collider.rect,
                                                ms[p[2] + 1].collider.rect))
    IN  [k \in 1..Len(hit) |->
            Contact(MobileID(hit[k][1]), MobileID(hit[k][2]), <<0, 0>>)]

\* mobiles against terrains, recording the displacement
MobileTerrainContacts_mtv(ms, ts) ==
    LET hit == SelectSeq(LoopPairs(Len(ms), Len(ts)),
                 LAMBDA p : NoSeparatingAxis(ms[p[1] + 1].collider.rect,
                                             ts[p[2] + 1].collider.rect))
    IN  [k \in 1..Len(hit) |->
            Contact(MobileID(hit[k][1]), TerrainID(hit[k][2]),
                    rect_displacement(ms[hit[k][1] + 1].collider.rect,
                                      ts[hit[k][2] + 1].collider.rect).v)]

\* collide mobiles against terrains
MobileTerrainContacts(ms, ts) ==
    LET hit == SelectSeq(LoopPairs(Len(ms), Len(ts)),
                 LAMBDA p : NoSeparatingAxis(ms[p[1] + 1].collider.rect,
                                             ts[p[2] + 1].collider.rect))
    IN  [k \in 1..Len(hit) |->
            Contact(MobileID(hit[k][1]), TerrainID(hit[k][2]), <<0, 0>>)]

\* mobiles against walls, leaving the displacement out as the other sweeps do
MobileWallContacts_nomtv(ms, ws) ==
    LET hit == SelectSeq(LoopPairs(Len(ms), Len(ws)),
                 LAMBDA p : NoSeparatingAxis(ms[p[1] + 1].collider.rect,
                                             ws[p[2] + 1].rect))
    IN  [k \in 1..Len(hit) |->
            Contact(MobileID(hit[k][1]), WallID(hit[k][2]), <<0, 0>>)]

\* collide mobiles against walls; the only sweep that records a displacement:
\* match rect_displacement(..) { Some((x, y)) => (x, y), None => (0, 0) }
MobileWallContacts(ms, ws) ==
    LET hit == SelectSeq(LoopPairs(Len(ms), Len(ws)),
                 LAMBDA p : NoSeparatingAxis(ms[p[1] + 1].collider.rect,
                                             ws[p[2] + 1].rect))
        mtv(p) == LET d == rect_displacement(ms[p[1] + 1].collider.rect,
                                             ws[p[2] + 1].rect)
                  IN  IF d.some THEN d.v ELSE <<0, 0>>
    IN  [k \in 1..Len(hit) |->
            Contact(MobileID(hit[k][1]), WallID(hit[k][2]), mtv(hit[k]))]

\* collide projs against mobiles
ProjMobileContacts(ps, ms) ==
    LET hit == SelectSeq(LoopPairs(Len(ps), Len(ms)),
                 LAMBDA p : NoSeparatingAxis(ps[p[1] + 1].rect,
                                             ms[p[2] + 1].collider.rect))
    IN  [k \in 1..Len(hit) |->
            Contact(ProjectileID(hit[k][1]), MobileID(hit[k][2]), <<0, 0>>)]

\* collide projs against terrains
ProjTerrainContacts(ps, ts) ==
    LET hit == SelectSeq(LoopPairs(Len(ps), Len(ts)),
                 LAMBDA p : NoSeparatingAxis(ps[p[1] + 1].rect,
                                             ts[p[2] + 1].collider.rect))
    IN  [k \in 1..Len(hit) |->
            Contact(ProjectileID(hit[k][1]), TerrainID(hit[k][2]), <<0, 0>>)]

\* a sweep the source does not have: projs against walls
ProjWallContacts(ps, ws) ==
    LET hit == SelectSeq(LoopPairs(Len(ps), Len(ws)),
                 LAMBDA p : NoSeparatingAxis(ps[p[1] + 1].rect,
                                             ws[p[2] + 1].rect))
    IN  [k \in 1..Len(hit) |->
            Contact(ProjectileID(hit[k][1]), WallID(hit[k][2]), <<0, 0>>)]

\* gather_contacts with a sixth sweep, projs against walls
gather_contacts_projwall(ts, ms, ws, ps, into) ==
    into \o MobileMobileContacts(ms) \o MobileTerrainContacts(ms, ts)
         \o MobileWallContacts(ms, ws) \o ProjMobileContacts(ps, ms)
         \o ProjTerrainContacts(ps, ts) \o ProjWallContacts(ps, ws)

\* gather_contacts that starts from an empty buffer
gather_contacts_clearing(ts, ms, ws, ps, into) ==
    MobileMobileContacts(ms) \o MobileTerrainContacts(ms, ts)
         \o MobileWallContacts(ms, ws) \o ProjMobileContacts(ps, ms)
         \o ProjTerrainContacts(ps, ts)

\* the buffer after gather_contacts(terrains, mobiles, walls, projs, into):
\* the five sweeps push in this order
gather_contacts(ts, ms, ws, ps, into) ==
    into \o MobileMobileContacts(ms) \o MobileTerrainContacts(ms, ts)
         \o MobileWallContacts(ms, ws) \o ProjMobileContacts(ps, ms)
         \o ProjTerrainContacts(ps, ts)

(***************************************************************************)
(* restitute.  Velocities are f32 in the source and whole numbers here:    *)
(* restitute reads only the sign of vx and of vy + 1.0 and writes the      *)
(* literals 0.0 and -1.0.                                                  *)
(***************************************************************************)
\* faulty variant: a sign that is 0 at zero
signum_zero(v) == IF v > 0 THEN 1 ELSE IF v < 0 THEN 0 - 1 ELSE 0

\* f32::signum followed by "as i32": 1 for every number from +0.0 up, -1
\* for every number below zero
signum(v) == IF v >= 0 THEN 1 ELSE 0 - 1

\* faulty variant: the key without its minus sign
sort_key_ascending(c) == c.mtv[1] * c.mtv[1] + c.mtv[2] * c.mtv[2]

\* the key of sort_unstable_by_key: |c| -(c.mtv.0 * c.mtv.0 + c.mtv.1 * c.mtv.1)
sort_key(c) == 0 - (c.mtv[1] * c.mtv[1] + c.mtv[2] * c.mtv[2])

\* the arrangements of the elements cs[i], i \in S, that ascend by sort_key
RECURSIVE SortedArrangements(_, _)
SortedArrangements(cs, S) ==
    IF S = {}
    THEN {<<>>}
    ELSE LET least == {i \in S :
                         \A j \in S : sort_key(cs[i]) <= sort_key(cs[j])}
         IN  UNION {{<<cs[i]>> \o t : t \in SortedArrangements(cs, S \ {i})} :
                    i \in least}

\* slice::sort_unstable_by_key: the slice ends ascending by key; the order
\* of elements with equal keys is not specified, so every such arrangement
\* is an outcome
sort_unstable_by_key(cs) == SortedArrangements(cs, DOMAIN cs)

\* faulty variant: a corrected mobile is left with vy = 0.0
restitute_wall_still(m, mtv) ==
    LET moved == Entity_move_pos(m,
                     (0 - mtv[1]) * signum(m.collider.vx),
                     (0 - mtv[2]) * signum(m.collider.vy + 1))
        stopped == IF mtv[1] # 0
                   THEN [moved EXCEPT !.collider.vx = 0]
                   ELSE moved
    IN  IF mtv[2] # 0
        THEN [stopped EXCEPT !.collider.vy = 0]
        ELSE stopped

\* the Mobile-Wall arm of restitute on dynamics[ai]; both arguments of
\* move_pos are evaluated before the velocities are overwritten
restitute_wall(m, mtv) ==
    LET moved == Entity_move_pos(m,
                     (0 - mtv[1]) * signum(m.collider.vx),
                     (0 - mtv[2]) * signum(m.collider.vy + 1))
        stopped == IF mtv[1] # 0
                   THEN [moved EXCEPT !.collider.vx = 0]
                   ELSE moved
    IN  IF mtv[2] # 0
        THEN [stopped EXCEPT !.collider.vy = 0 - 1]
        ELSE stopped

\* faulty variant: a contact of another kind stops its mobile as well
restitute_contact_stopping(dynamics, contact) ==
    IF contact.a.kind = "Mobile" /\ contact.b.kind = "Wall"
    THEN [dynamics EXCEPT ![contact.a.idx + 1] =
             restitute_wall(@, contact.mtv)]
    ELSE IF contact.a.kind = "Mobile"
         THEN [dynamics EXCEPT ![contact.a.idx + 1].collider.vx = 0]
         ELSE dynamics

\* one iteration of "for contact in contacts.iter()" of restitute
restitute_contact(dynamics, contact) ==
    IF contact.a.kind = "Mobile" /\ contact.b.kind = "Wall"
    THEN [dynamics EXCEPT ![contact.a.idx + 1] =
             restitute_wall(@, contact.mtv)]
    ELSE dynamics

(***************************************************************************)
(* The hp rules of handle_contact, one operator per match arm.  hp is      *)
(* usize; every subtraction is guarded by a comparison.                    *)
(***************************************************************************)
\* faulty variant: terrain kills any mobile
resolve_mobile_terrain_any(ms, a) ==
    [ms EXCEPT ![a + 1].collider.hp = 0]

resolve_mobile_terrain(ms, a) ==
    IF ms[a + 1].collider.is_player
    THEN [ms EXCEPT ![a + 1].collider.hp = 0]
    ELSE ms

\* faulty variant: the rule applies to any two mobiles
resolve_mobile_mobile_any(ms, a, b) ==
    IF ms[a + 1].collider.hp > ms[b + 1].collider.hp
    THEN LET m1 == [ms EXCEPT ![b + 1].collider.hp = 0]
         IN  [m1 EXCEPT ![a + 1].collider.hp =
                 IF @ >= 30 THEN @ - 30 ELSE 0]
    ELSE LET m1 == [ms EXCEPT ![a + 1].collider.hp = 0]
         IN  [m1 EXCEPT ![b + 1].collider.hp =
                 IF @ >= 30 THEN @ - 30 ELSE 0]

resolve_mobile_mobile(ms, a, b) ==
    IF ms[a + 1].collider.is_player \/ ms[b + 1].collider.is_player
    THEN IF ms[a + 1].collider.hp > ms[b + 1].collider.hp
         THEN LET m1 == [ms EXCEPT ![b + 1].collider.hp = 0]
              IN  [m1 EXCEPT ![a + 1].collider.hp =
                      IF @ >= 30 THEN @ - 30 ELSE 0]
         ELSE LET m1 == [ms EXCEPT ![a + 1].collider.hp = 0]
              IN  [m1 EXCEPT ![b + 1].collider.hp =
                      IF @ >= 30 THEN @ - 30 ELSE 0]
    ELSE ms

\* faulty variant: a terrain that is not destructible does not stop the
\* projectile
resolve_proj_terrain_through(ts, ps, a, b) ==
    IF ts[b + 1].collider.destructible
    THEN LET t0 == IF ts[b + 1].collider.hp >= ps[a + 1].hp
                   THEN [ts EXCEPT ![b + 1].collider.hp = @ - ps[a + 1].hp]
                   ELSE [ts EXCEPT ![b + 1].collider.hp = 0]
         IN  [terrains |-> [t0 EXCEPT ![b + 1].sprite.hits = @ + 1],
              projs |-> [ps EXCEPT ![a + 1].hp = 0]]
    ELSE [terrains |-> ts, projs |-> ps]

\* faulty variant: every terrain takes the damage
resolve_proj_terrain_any(ts, ps, a, b) ==
    LET t0 == IF ts[b + 1].collider.hp >= ps[a + 1].hp
              THEN [ts EXCEPT ![b + 1].collider.hp = @ - ps[a + 1].hp]
              ELSE [ts EXCEPT ![b + 1].collider.hp = 0]
    IN  [terrains |-> [t0 EXCEPT ![b + 1].sprite.hits = @ + 1],
         projs |-> [ps EXCEPT ![a + 1].hp = 0]]

\* the "hit" input goes to the terrain's animation_sm inside the
\* destructible branch
resolve_proj_terrain(ts, ps, a, b) ==
    LET t1 == IF ts[b + 1].collider.destructible
              THEN LET t0 == IF ts[b + 1].collider.hp >= ps[a + 1].hp
                             THEN [ts EXCEPT ![b + 1].collider.hp =
                                      @ - ps[a + 1].hp]
                             ELSE [ts EXCEPT ![b + 1].collider.hp = 0]
                   IN  [t0 EXCEPT ![b + 1].sprite.hits = @ + 1]
              ELSE ts
    IN  [terrains |-> t1, projs |-> [ps EXCEPT ![a + 1].hp = 0]]

\* faulty variant: the projectile keeps its hp after hitting a mobile
resolve_proj_mobile_through(ms, ps, a, b) ==
    LET m1 == IF ms[b + 1].collider.hp >= ps[a + 1].hp
              THEN [ms EXCEPT ![b + 1].collider.hp = @ - ps[a + 1].hp]
              ELSE [ms EXCEPT ![b + 1].collider.hp = 0]
    IN  [mobiles |-> m1, projs |-> ps]

\* faulty variant: the payload is subtracted without the comparison
resolve_proj_mobile_unguarded(ms, ps, a, b) ==
    [mobiles |-> [ms EXCEPT ![b + 1].collider.hp = @ - ps[a + 1].hp],
     projs |-> [ps EXCEPT ![a + 1].hp = 0]]

resolve_proj_mobile(ms, ps, a, b) ==
    LET m1 == IF ms[b + 1].collider.hp >= ps[a + 1].hp
              THEN [ms EXCEPT ![b + 1].collider.hp = @ - ps[a + 1].hp]
              ELSE [ms EXCEPT ![b + 1].collider.hp = 0]
    IN  [mobiles |-> m1, projs |-> [ps EXCEPT ![a + 1].hp = 0]]

\* one iteration of "for contact in contacts.iter()" of handle_contact on
\* the pools p = [terrains, mobiles, projs]
resolve_contact(p, contact) ==
    LET ka == contact.a.kind
        kb == contact.b.kind
        a == contact.a.idx
        b == contact.b.idx
    IN  CASE ka = "Mobile" /\ kb = "Terrain" ->
               [p EXCEPT !.mobiles = resolve_mobile_terrain(@, a)]
          [] ka = "Mobile" /\ kb = "Mobile" ->
               [p EXCEPT !.mobiles = resolve_mobile_mobile(@, a, b)]
          [] ka = "Projectile" /\ kb = "Terrain" ->
               LET r == resolve_proj_terrain(p.terrains, p.projs, a, b)
               IN  [p EXCEPT !.terrains = r.terrains, !.projs = r.projs]
          [] ka = "Projectile" /\ kb = "Mobile" ->
               LET r == resolve_proj_mobile(p.mobiles, p.projs, a, b)
               IN  [p EXCEPT !.mobiles = r.mobiles, !.projs = r.projs]
          [] OTHER -> p

\* faulty variant: the count is of the mobiles without hp, the player too
retain_live_counting_player(p) ==
    LET kept == SelectSeq(p.mobiles,
                    LAMBDA m : m.collider.hp > 0 \/ m.collider.is_player)
    IN  [terrains |-> SelectSeq(p.terrains, LAMBDA t : t.collider.hp > 0),
         mobiles |-> kept,
         projs |-> SelectSeq(p.projs, LAMBDA q : q.hp > 0),
         player_is_alive |-> p.mobiles[1].collider.hp # 0,
         removed |-> Len(SelectSeq(p.mobiles,
                                   LAMBDA m : m.collider.hp = 0))]

\* faulty variant: terrain is never removed
retain_live_terrain_stays(p) ==
    LET kept == SelectSeq(p.mobiles,
                    LAMBDA m : m.collider.hp > 0 \/ m.collider.is_player)
    IN  [terrains |-> p.terrains,
         mobiles |-> kept,
         projs |-> SelectSeq(p.projs, LAMBDA q : q.hp > 0),
         player_is_alive |-> p.mobiles[1].collider.hp # 0,
         removed |-> Len(p.mobiles) - Len(kept)]

\* faulty variant: a player without hp is removed like any other mobile
retain_live_player_goes(p) ==
    LET kept == SelectSeq(p.mobiles, LAMBDA m : m.collider.hp > 0)
    IN  [terrains |-> SelectSeq(p.terrains, LAMBDA t : t.collider.hp > 0),
         mobiles |-> kept,
         projs |-> SelectSeq(p.projs, LAMBDA q : q.hp > 0),
         player_is_alive |-> p.mobiles[1].collider.hp # 0,
         removed |-> Len(p.mobiles) - Len(kept)]

\* faulty variant: the player counts as alive while it is in the pool
retain_live_present(p) ==
    LET kept == SelectSeq(p.mobiles,
                    LAMBDA m : m.collider.hp > 0 \/ m.collider.is_player)
    IN  [terrains |-> SelectSeq(p.terrains, LAMBDA t : t.collider.hp > 0),
         mobiles |-> kept,
         projs |-> SelectSeq(p.projs, LAMBDA q : q.hp > 0),
         player_is_alive |-> Len(kept) > 0,
         removed |-> Len(p.mobiles) - Len(kept)]

\* the tail of handle_contact: player_is_alive is read before the three
\* retain calls
retain_live(p) ==
    LET kept == SelectSeq(p.mobiles,
                    LAMBDA m : m.collider.hp > 0 \/ m.collider.is_player)
    IN  [terrains |-> SelectSeq(p.terrains, LAMBDA t : t.collider.hp > 0),
         mobiles |-> kept,
         projs |-> SelectSeq(p.projs, LAMBDA q : q.hp > 0),
         player_is_alive |-> p.mobiles[1].collider.hp # 0,
         removed |-> Len(p.mobiles) - Len(kept)]

\* faulty variant: the hp rules run before restitute
handle_order_rules_first == <<"resolve", "sort", "restitute", "prune">>

\* the order of the parts of handle_contact: restitute (its sort, then its
\* loop), the loop over the hp rules, the retain calls
handle_order == <<"sort", "restitute", "resolve", "prune">>

\* the part that runs from the i-th on; a loop over no contact has no step
RECURSIVE PhaseFrom(_, _)
PhaseFrom(i, n) ==
    IF i > Len(handle_order)
    THEN "done"
    ELSE IF handle_order[i] \in {"restitute", "resolve"} /\ n = 0
         THEN PhaseFrom(i + 1, n)
         ELSE handle_order[i]

PhaseAfter(p, n) ==
    PhaseFrom((CHOOSE i \in 1..Len(handle_order) : handle_order[i] = p) + 1,
              n)

(***************************************************************************)
(* Values of the variables a specification does not use.                   *)
(***************************************************************************)
NoAxisArgs == [a1 |-> 0, a2 |-> 0, b1 |-> 0, b2 |-> 0]
NoAxisRet == [called |-> FALSE, panicked |-> FALSE, value |-> FALSE]
NoRectArgs == [r1 |-> Rect(0, 0, 0, 0), r2 |-> Rect(0, 0, 0, 0)]
NoRectRet == [called |-> FALSE, ret |-> None]
NoEntArgs == [sprite |-> <<0, 0>>, position |-> <<0, 0>>,
              collider |-> <<0, 0>>]
NoEnt == [built |-> FALSE,
          e |-> Entity_literal(<<0, 0>>, Wall_new(Rect(0, 0, 0, 0)))]

AxisIdle == axisArgs = NoAxisArgs /\ axisRet = NoAxisRet
RectIdle == rectArgs = NoRectArgs /\ rectRet = NoRectRet
EntIdle == entArgs = NoEntArgs /\ ent = NoEnt /\ nmoves = 0
NoStep == [op |-> "none", k |-> 0]
NoSnapshot == [terrains |-> <<>>, mobiles |-> <<>>, projs |-> <<>>,
               contacts |-> <<>>]
NoReturn == [returned |-> FALSE, player_is_alive |-> FALSE, removed |-> 0]
NoGame == [running |-> FALSE]

HandleIdle ==
    /\ ci = 0 /\ last = NoStep /\ prev = NoSnapshot /\ entry = NoSnapshot
    /\ ret = NoReturn
    /\ game = NoGame
PoolsIdle ==
    /\ terrains = <<>> /\ mobiles = <<>> /\ walls = <<>> /\ projs = <<>>
    /\ contacts = <<>> /\ into0 = <<>> /\ pc = "idle"
    /\ HandleIdle

(***************************************************************************)
(* SpecAxis: one call of separating_axis on drawn arguments.               *)
(***************************************************************************)
AxisCoords == (0 - AxisMax)..AxisMax

InitAxis ==
    /\ axisArgs \in [a1 : AxisCoords, a2 : AxisCoords,
                     b1 : AxisCoords, b2 : AxisCoords]
    /\ axisRet = NoAxisRet
    /\ RectIdle /\ EntIdle /\ PoolsIdle

CallSeparatingAxis ==
    /\ ~axisRet.called
    /\ axisRet' =
         IF separating_axis_panics(axisArgs.a1, axisArgs.a2,
                                   axisArgs.b1, axisArgs.b2)
         THEN [called |-> TRUE, panicked |-> TRUE, value |-> FALSE]
         ELSE [called |-> TRUE, panicked |-> FALSE,
               value |-> separating_axis(axisArgs.a1, axisArgs.a2,
                                         axisArgs.b1, axisArgs.b2)]
    /\ UNCHANGED <<axisArgs, rectArgs, rectRet, entArgs, ent, nmoves,
                   terrains, mobiles, walls, projs, contacts, into0, pc>>
    /\ UNCHANGED <<hvars, game>>

NextAxis == CallSeparatingAxis

SpecAxis == InitAxis /\ [][NextAxis]_vars

(***************************************************************************)
(* SpecRect: one call of rect_displacement on drawn rectangles.            *)
(***************************************************************************)
DrawnRects ==
    {Rect(x, y, w, h) : x \in 0..RectPos, y \in 0..RectPos,
                        w \in 0..RectExt, h \in 0..RectExt}

InitRect ==
    /\ rectArgs \in [r1 : DrawnRects, r2 : DrawnRects]
    /\ rectRet = NoRectRet
    /\ AxisIdle /\ EntIdle /\ PoolsIdle

CallRectDisplacement ==
    /\ ~rectRet.called
    /\ rectRet' = [called |-> TRUE,
                   ret |-> rect_displacement(rectArgs.r1, rectArgs.r2)]
    /\ UNCHANGED <<axisArgs, axisRet, rectArgs, entArgs, ent, nmoves,
                   terrains, mobiles, walls, projs, contacts, into0, pc>>
    /\ UNCHANGED <<hvars, game>>

NextRect == CallRectDisplacement

SpecRect == InitRect /\ [][NextRect]_vars

(***************************************************************************)
(* SpecEntity: Entity::new on a sprite, a position and a collider that     *)
(* each carry a position of their own, then Entity::move_pos calls.        *)
(***************************************************************************)
EntPositions == (0..EntPos) \X (0..EntPos)
Deltas == (0 - MaxDelta)..MaxDelta

InitEntity ==
    /\ entArgs \in [sprite : EntPositions, position : EntPositions,
                    collider : EntPositions]
    /\ ent = NoEnt
    /\ nmoves = 0
    /\ AxisIdle /\ RectIdle /\ PoolsIdle

CallEntityNew ==
    /\ ~ent.built
    /\ ent' = [built |-> TRUE,
               e |-> Entity_new(
                        Sprite_at(entArgs.sprite),
                        entArgs.position,
                        Wall_new(Rect(entArgs.collider[1],
                                      entArgs.collider[2], 1, 1)))]
    /\ UNCHANGED <<axisArgs, axisRet, rectArgs, rectRet, entArgs, nmoves,
                   terrains, mobiles, walls, projs, contacts, into0, pc>>
    /\ UNCHANGED <<hvars, game>>

CallEntityMovePos ==
    /\ ent.built
    /\ nmoves < MaxMoves
    /\ \E dx \in Deltas, dy \in Deltas :
         ent' = [ent EXCEPT !.e = Entity_move_pos(@, dx, dy)]
    /\ nmoves' = nmoves + 1
    /\ UNCHANGED <<axisArgs, axisRet, rectArgs, rectRet, entArgs,
                   terrains, mobiles, walls, projs, contacts, into0, pc>>
    /\ UNCHANGED <<hvars, game>>

NextEntity == CallEntityNew \/ CallEntityMovePos

SpecEntity == InitEntity /\ [][NextEntity]_vars

(***************************************************************************)
(* Spec: the contact pipeline of one tick, from pools in any arrangement.  *)
(* The player is mobile 0; the other colliders are drawn, at most          *)
(* MaxEntities of them.  update_game hands gather_contacts a fresh buffer; *)
(* the function itself takes any buffer, so one that still holds a contact *)
(* is drawn as well.                                                       *)
(***************************************************************************)
PoolRects ==
    {Rect(x, y, s[1], s[2]) : x \in 0..MaxPos, y \in 0..MaxPos, s \in Sizes}

PlayerRect == Rect(0, 0, 2, 1)

Origin(r) == <<r.x, r.y>>

Rock(r) == Entity_literal(Origin(r), Terrain_new(r, 0, TRUE, RockHp))
Player(r) == Entity_literal(Origin(r), Mobile_player(r))
Enemy(r) == Entity_literal(Origin(r), Mobile_enemy(r, 0, -1, EnemyHp))

\* a contact left in the buffer by an earlier call
StaleContact == Contact(MobileID(0), WallID(0), <<0, 1>>)

Init ==
    /\ \E nt \in 0..MaxEntities, ne \in 0..MaxEntities,
          nw \in 0..MaxEntities, np \in 0..MaxEntities :
         /\ nt + ne + nw + np <= MaxEntities
         /\ \E tr \in [1..nt -> PoolRects], er \in [1..ne -> PoolRects],
               wr \in [1..nw -> PoolRects], pr \in [1..np -> PoolRects] :
              /\ terrains = [i \in 1..nt |-> Rock(tr[i])]
              /\ mobiles = <<Player(PlayerRect)>>
                             \o [i \in 1..ne |-> Enemy(er[i])]
              /\ walls = [i \in 1..nw |-> Wall_new(wr[i])]
              /\ projs = [i \in 1..np |-> Projectile_at(pr[i])]
    /\ contacts \in {<<>>, <<StaleContact>>}
    /\ into0 = contacts
    /\ pc = "gather"
    /\ AxisIdle /\ RectIdle /\ EntIdle /\ HandleIdle

\* collision::gather_contacts(&terrains, &mobiles, &walls, &projs, &mut
\* contacts): the pools are shared borrows, only the buffer is written
GatherContacts ==
    /\ pc = "gather"
    /\ contacts' = gather_contacts(terrains, mobiles, walls, projs, contacts)
    /\ pc' = "gathered"
    /\ UNCHANGED <<axisArgs, axisRet, rectArgs, rectRet, entArgs, ent,
                   nmoves, terrains, mobiles, walls, projs, into0>>
    /\ UNCHANGED <<hvars, game>>

Next == GatherContacts

Spec == Init /\ [][Next]_vars

(***************************************************************************)
(* handle_contact, step by step: restitute sorts the contacts and goes     *)
(* through them, then the hp rules go through them, then the dead are      *)
(* removed and the pair (player_is_alive, ori - new) is returned.          *)
(***************************************************************************)
Snapshot == [terrains |-> terrains, mobiles |-> mobiles, projs |-> projs,
             contacts |-> contacts]

\* pc = "gathered" is the call of handle_contact, about to run its first part
At(p) ==
    \/ pc = p
    \/ pc = "gathered" /\ PhaseFrom(1, Len(contacts)) = p

EntryAfterStep == IF pc = "gathered" THEN Snapshot ELSE entry

\* the loop counter and the position after one more contact of the loop p
LoopAdvance(p) ==
    IF ci + 1 = Len(contacts)
    THEN pc' = PhaseAfter(p, Len(contacts)) /\ ci' = 0
    ELSE pc' = p /\ ci' = ci + 1

\* contacts.sort_unstable_by_key(..) at the head of restitute
RestituteSort ==
    /\ At("sort")
    /\ \E sorted \in sort_unstable_by_key(contacts) : contacts' = sorted
    /\ pc' = PhaseAfter("sort", Len(contacts))
    /\ ci' = 0
    /\ last' = [op |-> "sort", k |-> 0]
    /\ prev' = Snapshot
    /\ entry' = EntryAfterStep
    /\ UNCHANGED game
    /\ UNCHANGED <<axisArgs, axisRet, rectArgs, rectRet, entArgs, ent,
                   nmoves, terrains, mobiles, walls, projs, into0, ret>>

\* one iteration of the loop of restitute
RestituteStep ==
    /\ At("restitute")
    /\ ci < Len(contacts)
    /\ mobiles' = restitute_contact(mobiles, contacts[ci + 1])
    /\ LoopAdvance("restitute")
    /\ last' = [op |-> "restitute", k |-> ci + 1]
    /\ prev' = Snapshot
    /\ entry' = EntryAfterStep
    /\ UNCHANGED game
    /\ UNCHANGED <<axisArgs, axisRet, rectArgs, rectRet, entArgs, ent,
                   nmoves, terrains, walls, projs, contacts, into0, ret>>

\* one iteration of the loop over the hp rules
ResolveStep ==
    /\ At("resolve")
    /\ ci < Len(contacts)
    /\ LET r == resolve_contact([terrains |-> terrains, mobiles |-> mobiles,
                                 projs |-> projs], contacts[ci + 1])
       IN  /\ terrains' = r.terrains
           /\ mobiles' = r.mobiles
           /\ projs' = r.projs
    /\ LoopAdvance("resolve")
    /\ last' = [op |-> "resolve", k |-> ci + 1]
    /\ prev' = Snapshot
    /\ entry' = EntryAfterStep
    /\ UNCHANGED game
    /\ UNCHANGED <<axisArgs, axisRet, rectArgs, rectRet, entArgs, ent,
                   nmoves, walls, contacts, into0, ret>>

\* player_is_alive, the three retain calls and the return
RetainLive ==
    /\ At("prune")
    /\ LET r == retain_live([terrains |-> terrains, mobiles |-> mobiles,
                             projs |-> projs])
       IN  /\ terrains' = r.terrains
           /\ mobiles' = r.mobiles
           /\ projs' = r.projs
           /\ ret' = [returned |-> TRUE,
                      player_is_alive |-> r.player_is_alive,
                      removed |-> r.removed]
    /\ pc' = PhaseAfter("prune", Len(contacts))
    /\ ci' = 0
    /\ last' = [op |-> "prune", k |-> 0]
    /\ prev' = Snapshot
    /\ entry' = EntryAfterStep
    /\ UNCHANGED game
    /\ UNCHANGED <<axisArgs, axisRet, rectArgs, rectRet, entArgs, ent,
                   nmoves, walls, contacts, into0>>

NextHandle ==
    \/ GatherContacts
    \/ RestituteSort
    \/ RestituteStep
    \/ ResolveStep
    \/ RetainLive

(***************************************************************************)
(* SpecRestitute: one tick's gather_contacts and handle_contact around a   *)
(* player with any of the velocities the input layer sets, against up to   *)
(* MaxWalls walls: one on each side of the player, one over it, one away.  *)
(* Other colliders may stand by so that contacts of the other kinds are in *)
(* the list.                                                               *)
(***************************************************************************)
\* update_game: vx is 3.0, -3.0 or 0.0 and vy is -4.0, 2.0 or -1.0
PlayerVx == {3, 0 - 3, 0}
PlayerVy == {0 - 4, 2, 0 - 1}

MovingPlayer(r, vx, vy) ==
    [Player(r) EXCEPT !.collider.vx = vx, !.collider.vy = vy]

\* the player of SpecRestitute covers [1, 3) x [1, 3)
BoxedPlayerRect == Rect(1, 1, 2, 2)

WallRects == {Rect(0, 0, 2, 4),   \* over the player's left column
              Rect(2, 0, 2, 4),   \* over its right column
              Rect(0, 0, 4, 2),   \* over its top row
              Rect(0, 2, 4, 2),   \* over its bottom row
              Rect(1, 1, 2, 2),   \* over all of it
              Rect(5, 5, 1, 1)}   \* away from it

\* an enemy moving left and up over the player's bottom right corner
DriftingEnemy ==
    Entity_literal(<<2, 2>>, Mobile_enemy(Rect(2, 2, 2, 2), 0 - 1, 0 - 2,
                                          EnemyHp))

Bystanders ==
    {[terrains |-> <<>>, enemies |-> <<>>, projs |-> <<>>],
     [terrains |-> <<>>, enemies |-> <<DriftingEnemy>>, projs |-> <<>>],
     [terrains |-> <<Rock(Rect(0, 0, 2, 2))>>, enemies |-> <<>>,
      projs |-> <<Projectile_at(Rect(1, 1, 1, 1))>>]}

InitRestitute ==
    /\ \E vx \in PlayerVx, vy \in PlayerVy, by \in Bystanders :
         /\ mobiles = <<MovingPlayer(BoxedPlayerRect, vx, vy)>> \o by.enemies
         /\ terrains = by.terrains
         /\ projs = by.projs
    /\ \E nw \in 0..MaxWalls : \E wr \in [1..nw -> WallRects] :
         walls = [i \in 1..nw |-> Wall_new(wr[i])]
    /\ contacts = <<>>
    /\ into0 = contacts
    /\ pc = "gather"
    /\ AxisIdle /\ RectIdle /\ EntIdle /\ HandleIdle

SpecRestitute == InitRestitute /\ [][NextHandle]_vars

(***************************************************************************)
(* SpecResolve: one tick's gather_contacts and handle_contact on pools     *)
(* whose hit points vary.  The player stands at [2, 4) x [2, 4); the       *)
(* others, at most MaxEntities of them, stand on one of its corners or     *)
(* away.                                                                   *)
(***************************************************************************)
PlayerHps == {PlayerHp, 40}
EnemyHps == {EnemyHp, 40, 2}
RockHps == {RockHp, 2}

CentralPlayerRect == Rect(2, 2, 2, 2)
\* on the player's top left corner, and away
EnemyRects == {Rect(1, 1, 2, 2), Rect(9, 9, 2, 2)}
\* on the player's bottom right corner, and under the corner that the
\* player shares with the near enemy
TerrainRects == {Rect(3, 3, 2, 2), Rect(0, 0, 3, 3)}
\* on the near enemy and on the terrain under it, clear of the player; and
\* on the player's bottom right corner
ProjRects == {Rect(1, 1, 1, 1), Rect(3, 3, 1, 1)}

\* assets.rs wall_entity: a terrain that is not destructible, hp 1
wall_entity(r) == Entity_literal(Origin(r), Terrain_new(r, 0, FALSE, 1))

TerrainChoices ==
    {[Rock(r) EXCEPT !.collider.hp = h] : r \in TerrainRects, h \in RockHps}
        \cup {wall_entity(r) : r \in TerrainRects}
EnemyChoices ==
    {[Enemy(r) EXCEPT !.collider.hp = h] : r \in EnemyRects, h \in EnemyHps}
ProjChoices == {Projectile_at(r) : r \in ProjRects}

InitResolve ==
    /\ \E nt \in 0..MaxEntities, ne \in 0..MaxEntities,
          np \in 0..MaxEntities :
         /\ nt + ne + np <= MaxEntities
         /\ terrains \in [1..nt -> TerrainChoices]
         /\ \E h \in PlayerHps, es \in [1..ne -> EnemyChoices] :
              mobiles = <<[Player(CentralPlayerRect)
                             EXCEPT !.collider.hp = h]>> \o es
         /\ projs \in [1..np -> ProjChoices]
    /\ walls = <<>>
    /\ contacts = <<>>
    /\ into0 = contacts
    /\ pc = "gather"
    /\ AxisIdle /\ RectIdle /\ EntIdle /\ HandleIdle

SpecResolve == InitResolve /\ [][NextHandle]_vars

(***************************************************************************)
(* SpecGame: the simulation loop of main.rs, tick after tick.  One tick is *)
(* update_game followed by frame_count += 1: the head of update_game       *)
(* (scroll, stage, input, update_enemies, movement), gather_contacts, the  *)
(* steps of handle_contact, and the tail (score, fire).  Coordinates are   *)
(* the program's own.  The games start from main's initial state or from a *)
(* game in progress; at most MaxTicks ticks are run.                       *)
(*                                                                         *)
(* draw_game's cleanup_terrain keeps every terrain younger than 300        *)
(* frames, which the terrains of these games all are.  GameStage::Boss is  *)
(* never constructed.                                                      *)
(***************************************************************************)
\* number of ticks run
MaxTicks == 4
\* width in bits the model gives to usize
UsizeBits == 16
Usize == 2 ^ UsizeBits

WIDTH == 320
HEIGHT == 576
WALL_SZ == 32
ROCK_SZ == 16

Rocks(spawning_enemies, num_waves) ==
    [kind |-> "Rocks", spawning_enemies |-> spawning_enemies,
     num_waves |-> num_waves]
Boulders(num_waves) ==
    [kind |-> "Boulders", spawning_enemies |-> FALSE,
     num_waves |-> num_waves]

\* Projectile::new(from)
Projectile_new(from) ==
    Projectile_at(Rect(from.rect.x + from.rect.w \div 2, from.rect.y - 10,
                       5, 5))

\* Mobile::player(180, 500) in the entity main builds
PlayerStart == Rect(180, 500, 36, 25)

rock_entity(pos) == Rock(Rect(pos[1], pos[2], 16, 16))
\* main.rs names the terrain that is not destructible boulder_entity
boulder_entity(pos) == wall_entity(Rect(pos[1], pos[2], 32, 32))
\* enemy_entity: the model gives the enemy the extents of the player
enemy_entity(pos) == Enemy(Rect(pos[1], pos[2], 36, 25))

\* walls_vec(WIDTH, HEIGHT): a wall along either side of the field
walls_vec ==
    <<Wall_new(Rect(0 - WALL_SZ, 0, WALL_SZ, HEIGHT)),
      Wall_new(Rect(WIDTH, 0, WALL_SZ, HEIGHT))>>

\* the cells <<i, j>> of generate_terrain's grid that the model lets the
\* generator fill, and the seeds it lets it draw
RockCells == {<<11, 0>>, <<12, 5>>}
Seeds == {0, 4}

\* the cells of S in the order of the loops: i outside, j inside
RECURSIVE InLoopOrder(_)
InLoopOrder(S) ==
    IF S = {}
    THEN <<>>
    ELSE LET c == CHOOSE c \in S :
                     \A d \in S : c[1] * 6 + c[2] <= d[1] * 6 + d[2]
         IN  <<c>> \o InLoopOrder(S \ {c})

\* terrain_type 1, slots i and after of the row drawn from seed
RECURSIVE BoulderRow(_, _, _)
BoulderRow(seed, i, scroll_y) ==
    IF i >= WIDTH \div WALL_SZ
    THEN <<>>
    ELSE (IF ((seed + i) \div 3) % 3 = 0
          THEN <<rock_entity(<<i * WALL_SZ, scroll_y - WALL_SZ>>),
                 rock_entity(<<i * WALL_SZ + ROCK_SZ, scroll_y - WALL_SZ>>),
                 rock_entity(<<i * WALL_SZ,
                               scroll_y - WALL_SZ + ROCK_SZ>>),
                 rock_entity(<<i * WALL_SZ + ROCK_SZ,
                               scroll_y - WALL_SZ + ROCK_SZ>>)>>
          ELSE <<boulder_entity(<<i * WALL_SZ, scroll_y - WALL_SZ>>)>>)
         \o BoulderRow(seed, i + 1, scroll_y)

\* the terrain pools generate_terrain can leave, one for each outcome of
\* its random draws
generate_terrain(ts, scroll_y, terrain_type) ==
    IF terrain_type = 0
    THEN {ts \o [k \in 1..Len(o) |->
                    rock_entity(<<o[k][1] * ROCK_SZ,
                                  scroll_y - ROCK_SZ * (o[k][2] + 1)>>)] :
             o \in {InLoopOrder(S) : S \in SUBSET RockCells}}
    ELSE {ts \o BoulderRow(seed, 0, scroll_y) : seed \in Seeds}

\* faulty variant: spawning goes on until there are six mobiles
pool_full_at_six(ms) == Len(ms) = 6

\* if state.mobiles.len() == 5: "once 4 are spawned (5 including player),
\* stop spawning"
pool_full(ms) == Len(ms) = 5

\* the match on state.stage: what it can leave as stage, terrains, mobiles
update_stage(g, ts, ms) ==
    LET n == g.stage.num_waves
    IN  IF g.stage.kind = "Rocks"
        THEN LET grown == IF g.frame_count % 180 = 120
                          THEN generate_terrain(ts, g.scroll[2], 0)
                          ELSE {ts}
                 spawned ==
                     IF g.stage.spawning_enemies /\ g.frame_count % 30 = 0
                     THEN Append(ms, enemy_entity(<<100, g.scroll[2] - 30>>))
                     ELSE ms
                 stages ==
                     IF g.stage.spawning_enemies
                     THEN {IF pool_full(spawned)
                           THEN Rocks(FALSE, n)
                           ELSE g.stage}
                     ELSE IF Len(ms) = 1
                          THEN {IF r + n >= 5
                                THEN Boulders(1)
                                ELSE Rocks(TRUE, n + 1) : r \in 0..3}
                          ELSE {g.stage}
             IN  {[stage |-> st, terrains |-> t, mobiles |-> spawned] :
                     st \in stages, t \in grown}
        ELSE IF g.frame_count % 180 = 0
             THEN {[stage |-> IF r + n >= 7
                              THEN Rocks(TRUE, 1)
                              ELSE Boulders(n + 1),
                    terrains |-> t, mobiles |-> ms] :
                      r \in 0..3,
                      t \in generate_terrain(ts, g.scroll[2], 1)}
             ELSE {[stage |-> g.stage, terrains |-> ts, mobiles |-> ms]}

\* update_enemies steers every mobile but the first in f32 steps of a few
\* hundredths around the base velocity (0.0, -1.0); the movement takes
\* `as i32` of the velocity, which near -1.0 is -1 or 0
EnemyVelocities == {<<0, 0 - 1>>, <<0, 0>>}

update_enemies(ms) ==
    {[i \in DOMAIN ms |->
         IF i = 1
         THEN ms[i]
         ELSE [ms[i] EXCEPT !.collider.vx = v[i][1],
                            !.collider.vy = v[i][2]]] :
       v \in [2..Len(ms) -> EnemyVelocities]}

\* usize arithmetic: with overflow checks (debug) an overflow panics,
\* without them (release) the result wraps
usize_sub(a, b, checks) ==
    IF a >= b
    THEN [panicked |-> FALSE, value |-> a - b]
    ELSE [panicked |-> checks, value |-> (a - b) % Usize]
usize_add(a, b, checks) ==
    IF a + b < Usize
    THEN [panicked |-> FALSE, value |-> a + b]
    ELSE [panicked |-> checks, value |-> (a + b) % Usize]

\* if !player_is_alive { state.score += scores_gained - 1; .. } else
\* { state.score += scores_gained; }
score_update(score, player_is_alive, scores_gained, checks) ==
    LET gained == IF player_is_alive
                  THEN [panicked |-> FALSE, value |-> scores_gained]
                  ELSE usize_sub(scores_gained, 1, checks)
    IN  IF gained.panicked
        THEN gained
        ELSE usize_add(score, gained.value, checks)

\* the velocities <<vx, vy>> the input layer gives the player for the keys
\* the model holds down: Left, Up, none, Right with Down
HeldKeys == {<<0 - 3, 0 - 1>>, <<0, 0 - 4>>, <<0, 0 - 1>>, <<3, 2>>}

FreshGame ==
    [running |-> TRUE, stage |-> Rocks(TRUE, 1), frame_count |-> 0,
     scroll |-> <<0, 0>>, score |-> 0, game_over |-> FALSE,
     panicked |-> FALSE, ticks |-> 0]

\* the state main builds before the event loop
FreshState ==
    [terrains |-> <<>>, mobiles |-> <<Player(PlayerStart)>>,
     walls |-> walls_vec, projs |-> <<>>, game |-> FreshGame]

\* a game after f ticks in which nothing was hit: the camera and the walls
\* have gone up by f
InProgress(f, stage) ==
    [FreshState EXCEPT
        !.walls = [i \in DOMAIN walls_vec |->
                      Collider_move_pos(walls_vec[i], 0, 0 - f)],
        !.game = [FreshGame EXCEPT !.frame_count = f,
                                   !.scroll = <<0, 0 - f>>,
                                   !.stage = stage]]

\* n projectiles in a column, 10 apart, the first one 10 under y
ProjectileColumn(x, y, n) ==
    [k \in 1..n |-> Projectile_at(Rect(x, y + 10 * k, 5, 5))]

GamesInProgress ==
    \* a rock in the line of fire: one projectile reaches it each tick
    {[InProgress(31, Rocks(TRUE, 1)) EXCEPT
         !.terrains = <<[rock_entity(<<192, 400>>)
                           EXCEPT !.collider.hp = h]>>,
         !.projs = ProjectileColumn(198, 411, MaxTicks)] :
       h \in {RockHp, 16}}
    \cup
    \* an enemy right above the player
    {[InProgress(31, Rocks(TRUE, 1)) EXCEPT
         !.mobiles = @ \o <<enemy_entity(<<180, 470>>)>>]}
    \cup
    \* a rock right above the player
    {[InProgress(31, Rocks(TRUE, 1)) EXCEPT
         !.terrains = <<rock_entity(<<190, 480>>)>>]}
    \cup
    \* both of them right above the player
    {[InProgress(31, Rocks(TRUE, 1)) EXCEPT
         !.terrains = <<rock_entity(<<190, 480>>)>>,
         !.mobiles = @ \o <<enemy_entity(<<180, 470>>)>>]}
    \cup
    \* the player next to the left wall
    {[InProgress(31, Rocks(TRUE, 1)) EXCEPT
         !.mobiles = <<Player(Rect(2, 400, 36, 25))>>]}
    \cup
    \* three enemies out and the fourth due, and all four out: these
    \* crowded games are run for their last two ticks and their last one
    {[InProgress(29, Rocks(TRUE, 1)) EXCEPT
         !.mobiles = @ \o <<enemy_entity(<<20, 300>>),
                            enemy_entity(<<60, 200>>),
                            enemy_entity(<<240, 300>>)>>,
         !.game.ticks = MaxTicks - 2],
     [InProgress(30, Rocks(FALSE, 1)) EXCEPT
         !.mobiles = @ \o <<enemy_entity(<<20, 300>>),
                            enemy_entity(<<60, 200>>),
                            enemy_entity(<<240, 300>>),
                            enemy_entity(<<100, 100>>)>>,
         !.game.ticks = MaxTicks - 1]}
    \cup
    \* a wave of enemies is over, rocks are due; boulders are due
    {InProgress(119, Rocks(FALSE, 2)), InProgress(179, Boulders(1))}

InitGame ==
    /\ \E s \in {FreshState} \cup GamesInProgress :
         /\ terrains = s.terrains
         /\ mobiles = s.mobiles
         /\ walls = s.walls
         /\ projs = s.projs
         /\ game = s.game
    /\ contacts = <<>>
    /\ into0 = <<>>
    /\ pc = "head"
    /\ ci = 0 /\ last = NoStep /\ prev = NoSnapshot /\ entry = NoSnapshot
    /\ ret = NoReturn
    /\ AxisIdle /\ RectIdle /\ EntIdle

\* faulty variant: the list of the tick before is used again
fresh_contacts_carried == contacts

\* let mut contacts: Vec<Contact> = vec![];
fresh_contacts == <<>>

\* update_game up to and with `let mut contacts = vec![]`
UpdateGameHead ==
    /\ pc = "head"
    /\ game.ticks < MaxTicks
    /\ LET g == [game EXCEPT !.scroll[2] = @ - 1]
       IN  \E st \in update_stage(g, terrains, mobiles),
              v \in HeldKeys :
             \E steered \in
                   update_enemies([st.mobiles EXCEPT
                                      ![1].collider.vx = v[1],
                                      ![1].collider.vy = v[2]]) :
                /\ game' = [g EXCEPT !.stage = st.stage]
                /\ terrains' = st.terrains
                /\ mobiles' =
                     [i \in DOMAIN steered |->
                         Entity_move_pos(steered[i], steered[i].collider.vx,
                                         steered[i].collider.vy)]
    /\ projs' = [i \in DOMAIN projs |->
                    Collider_move_pos(projs[i], projs[i].vx, projs[i].vy)]
    /\ walls' = [i \in DOMAIN walls |-> Collider_move_pos(walls[i], 0, 0 - 1)]
    /\ contacts' = fresh_contacts
    /\ into0' = fresh_contacts
    /\ pc' = "gather"
    /\ ci' = 0
    /\ last' = [op |-> "head", k |-> 0]
    /\ prev' = Snapshot
    /\ entry' = NoSnapshot
    /\ ret' = NoReturn
    /\ UNCHANGED <<axisArgs, axisRet, rectArgs, rectRet, entArgs, ent,
                   nmoves>>

\* update_game after handle_contact has returned, and the frame_count += 1
\* of the loop that called it
UpdateGameTail ==
    /\ pc = "done"
    /\ game.running
    /\ \E checks \in BOOLEAN :
         LET s == score_update(game.score, ret.player_is_alive, ret.removed,
                               checks)
         IN  IF s.panicked
             THEN /\ game' = [game EXCEPT !.panicked = TRUE]
                  /\ pc' = "panicked"
                  /\ projs' = projs
             ELSE /\ game' = [game EXCEPT
                                 !.score = s.value,
                                 !.game_over = @ \/ ~ret.player_is_alive,
                                 !.frame_count = @ + 1,
                                 !.ticks = @ + 1]
                  /\ pc' = "head"
                  /\ projs' = IF game.frame_count % 5 = 0
                              THEN Append(projs,
                                          Projectile_new(mobiles[1].collider))
                              ELSE projs
    /\ last' = [op |-> "tail", k |-> 0]
    /\ prev' = Snapshot
    /\ UNCHANGED <<axisArgs, axisRet, rectArgs, rectRet, entArgs, ent,
                   nmoves, terrains, mobiles, walls, contacts, into0,
                   ci, entry, ret>>

\* the redraw that finds game_over set: main() is entered again
Restart ==
    /\ pc = "head"
    /\ game.game_over
    /\ terrains' = FreshState.terrains
    /\ mobiles' = FreshState.mobiles
    /\ walls' = FreshState.walls
    /\ projs' = FreshState.projs
    /\ game' = [FreshGame EXCEPT !.ticks = game.ticks]
    /\ last' = [op |-> "restart", k |-> 0]
    /\ prev' = Snapshot
    /\ UNCHANGED <<axisArgs, axisRet, rectArgs, rectRet, entArgs, ent,
                   nmoves, contacts, into0, pc, ci, entry, ret>>

NextGame ==
    \/ UpdateGameHead
    \/ GatherContacts
    \/ RestituteSort
    \/ RestituteStep
    \/ ResolveStep
    \/ RetainLive
    \/ UpdateGameTail
    \/ Restart

SpecGame == InitGame /\ [][NextGame]_vars

(***************************************************************************)
(* Vocabulary of the properties, independent of the definitions above.     *)
(***************************************************************************)
\* the integer points of [a1, a2) and [b1, b2) in common; with integer end
\* points the two half-open intervals intersect exactly when this is not empty
SharedPoints(a1, a2, b1, b2) ==
    {p \in Min(a1, b1)..Max(a2, b2) : a1 <= p /\ p < a2 /\ b1 <= p /\ p < b2}

\* an interval of zero length lying strictly inside the other one
ZeroLengthInside(a1, a2, b1, b2) ==
    \/ a1 = a2 /\ b1 < a1 /\ a1 < b2
    \/ b1 = b2 /\ a1 < b1 /\ b1 < a2

XShared(r1, r2) == SharedPoints(r1.x, r1.x + r1.w, r2.x, r2.x + r2.w)
YShared(r1, r2) == SharedPoints(r1.y, r1.y + r1.h, r2.y, r2.y + r2.h)

\* the two rectangles have a point in common
SharePoint(r1, r2) == XShared(r1, r2) # {} /\ YShared(r1, r2) # {}

PositiveExtents(r) == r.w > 0 /\ r.h > 0

\* the contacts the call appended
Produced == SubSeq(contacts, Len(into0) + 1, Len(contacts))

\* how many appended contacts name the pair (a, b)
CountPair(a, b) ==
    Cardinality({k \in DOMAIN Produced :
                    Produced[k].a = a /\ Produced[k].b = b})

RectOf(id) ==
    CASE id.kind = "Terrain" -> terrains[id.idx + 1].collider.rect
      [] id.kind = "Mobile" -> mobiles[id.idx + 1].collider.rect
      [] id.kind = "Projectile" -> projs[id.idx + 1].rect
      [] id.kind = "Wall" -> walls[id.idx + 1].rect

Indices(pool) == 0..(Len(pool) - 1)

\* the pair is pushed once if it is a candidate whose rectangles are not
\* separated on either axis, and never otherwise
PushedOnceIff(a, b, candidate) ==
    /\ CountPair(a, b) =
         IF candidate /\ NoSeparatingAxis(RectOf(a), RectOf(b)) THEN 1 ELSE 0
    /\ (candidate /\ PositiveExtents(RectOf(a)) /\ PositiveExtents(RectOf(b)))
         => (CountPair(a, b) = 1 <=> SharePoint(RectOf(a), RectOf(b)))

(***************************************************************************)
(* C1: after Entity::new and any sequence of Entity::move_pos calls,       *)
(* entity.position, sprite.position and the collider rectangle's origin    *)
(* are all equal.                                                          *)
(***************************************************************************)
C1_PositionsInLockStep ==
    ent.built =>
        /\ ent.e.sprite.position = ent.e.position
        /\ Origin(ent.e.collider.rect) = ent.e.position

(***************************************************************************)
(* C2: Entity::new returns an entity whose sprite.position and collider    *)
(* origin both equal the given position, whatever positions the sprite and *)
(* the collider carried on input.                                          *)
(***************************************************************************)
C2_NewAligns ==
    (ent.built /\ nmoves = 0) =>
        /\ ent.e.position = entArgs.position
        /\ ent.e.sprite.position = entArgs.position
        /\ Origin(ent.e.collider.rect) = entArgs.position

C2_Witness ==
    /\ ent.built /\ nmoves = 0
    /\ entArgs.sprite # entArgs.position
    /\ entArgs.collider # entArgs.position
    /\ entArgs.sprite # entArgs.collider

(***************************************************************************)
(* C3: gather_contacts appends a contact for a candidate pair (Mobile i <  *)
(* Mobile j, Mobile-Terrain, Mobile-Wall, Projectile-Mobile, Projectile-   *)
(* Terrain) if and only if both axis tests report overlap, exactly once;   *)
(* no self pair and no mirrored Mobile-Mobile pair is appended.  For       *)
(* rectangles of positive extents the axis tests report overlap exactly    *)
(* when the rectangles have a point in common.                             *)
(***************************************************************************)
C3_ContactIffOverlap ==
    pc = "gathered" =>
        /\ \A i \in Indices(mobiles), j \in Indices(mobiles) :
             PushedOnceIff(MobileID(i), MobileID(j), i < j)
        /\ \A i \in Indices(mobiles), j \in Indices(terrains) :
             PushedOnceIff(MobileID(i), TerrainID(j), TRUE)
        /\ \A i \in Indices(mobiles), j \in Indices(walls) :
             PushedOnceIff(MobileID(i), WallID(j), TRUE)
        /\ \A i \in Indices(projs), j \in Indices(mobiles) :
             PushedOnceIff(ProjectileID(i), MobileID(j), TRUE)
        /\ \A i \in Indices(projs), j \in Indices(terrains) :
             PushedOnceIff(ProjectileID(i), TerrainID(j), TRUE)

C3_Witness ==
    /\ pc = "gathered"
    /\ Len(mobiles) >= 2
    /\ SharePoint(RectOf(MobileID(0)), RectOf(MobileID(1)))
    /\ CountPair(MobileID(0), MobileID(1)) = 1
    /\ CountPair(MobileID(1), MobileID(0)) = 0

(***************************************************************************)
(* C4, as stated: for a1 <= a2 and b1 <= b2, separating_axis returns true  *)
(* if and only if [a1, a2) and [b1, b2) do not intersect, intervals of     *)
(* zero length included.                                                   *)
(***************************************************************************)
C4_SeparatingIffDisjoint ==
    (axisRet.called /\ ~axisRet.panicked) =>
        (axisRet.value <=>
            SharedPoints(axisArgs.a1, axisArgs.a2,
                         axisArgs.b1, axisArgs.b2) = {})

(***************************************************************************)
(* C4, amended: for a1 <= a2 and b1 <= b2, separating_axis returns true if *)
(* and only if [a1, a2) and [b1, b2) do not intersect, except that it      *)
(* returns false when one interval has zero length and lies strictly       *)
(* inside the other.                                                       *)
(***************************************************************************)
C4_SeparatingIffDisjointOrInside ==
    (axisRet.called /\ ~axisRet.panicked) =>
        (axisRet.value <=>
            /\ SharedPoints(axisArgs.a1, axisArgs.a2,
                            axisArgs.b1, axisArgs.b2) = {}
            /\ ~ZeroLengthInside(axisArgs.a1, axisArgs.a2,
                                 axisArgs.b1, axisArgs.b2))

C4_Witness ==
    /\ axisRet.called /\ ~axisRet.panicked
    /\ ZeroLengthInside(axisArgs.a1, axisArgs.a2, axisArgs.b1, axisArgs.b2)
    /\ ~axisRet.value

(***************************************************************************)
(* C5: rect_displacement returns None if and only if the two rectangles do *)
(* not overlap on both axes (have no point in common); for every pair that *)
(* overlaps on both axes it returns Some vector.                           *)
(***************************************************************************)
C5_NoneIffNoOverlap ==
    rectRet.called =>
        (rectRet.ret.some <=> SharePoint(rectArgs.r1, rectArgs.r2))

C5_Witness ==
    /\ rectRet.called
    /\ XShared(rectArgs.r1, rectArgs.r2) # {}
    /\ YShared(rectArgs.r1, rectArgs.r2) = {}
    /\ ~rectRet.ret.some

(***************************************************************************)
(* C6: for two overlapping rectangles rect_displacement returns a vector   *)
(* with exactly one nonzero component, on the axis of the smaller overlap: *)
(* (0, y_overlap) when the x-overlap exceeds the y-overlap, otherwise      *)
(* (x_overlap, 0), so equal overlaps resolve on X.                         *)
(***************************************************************************)
C6_ShallowAxis ==
    (rectRet.called /\ SharePoint(rectArgs.r1, rectArgs.r2)) =>
        LET xo == Cardinality(XShared(rectArgs.r1, rectArgs.r2))
            yo == Cardinality(YShared(rectArgs.r1, rectArgs.r2))
            v == rectRet.ret.v
        IN  /\ rectRet.ret.some
            /\ v = IF xo > yo THEN <<0, yo>> ELSE <<xo, 0>>
            /\ (v[1] = 0) # (v[2] = 0)

C6_Witness ==
    /\ rectRet.called
    /\ SharePoint(rectArgs.r1, rectArgs.r2)
    /\ Cardinality(XShared(rectArgs.r1, rectArgs.r2)) =
         Cardinality(YShared(rectArgs.r1, rectArgs.r2))
    /\ rectRet.ret.v[1] # 0 /\ rectRet.ret.v[2] = 0

(***************************************************************************)
(* C7: every contact gather_contacts appends has (kind(a), kind(b)) among  *)
(* Mobile-Mobile, Mobile-Terrain, Mobile-Wall, Projectile-Mobile and       *)
(* Projectile-Terrain; no Projectile-Wall or Projectile-Projectile contact *)
(* is appended even when those rectangles overlap.                         *)
(***************************************************************************)
C7_ContactKinds ==
    pc = "gathered" =>
        \A k \in DOMAIN Produced :
            <<Produced[k].a.kind, Produced[k].b.kind>> \in
                {<<"Mobile", "Mobile">>, <<"Mobile", "Terrain">>,
                 <<"Mobile", "Wall">>, <<"Projectile", "Mobile">>,
                 <<"Projectile", "Terrain">>}

C7_Witness ==
    /\ pc = "gathered"
    /\ Len(projs) >= 1 /\ Len(walls) >= 1
    /\ SharePoint(projs[1].rect, walls[1].rect)
    /\ Produced = <<>>

(***************************************************************************)
(* C9: every appended contact that is not Mobile-Wall has MTV (0, 0); a    *)
(* Mobile-Wall contact carries the value of rect_displacement, or (0, 0)   *)
(* when that is None.                                                      *)
(***************************************************************************)
C9_MtvOnlyForWalls ==
    pc = "gathered" =>
        \A k \in DOMAIN Produced :
            LET c == Produced[k]
                d == rect_displacement(RectOf(c.a), RectOf(c.b))
            IN  IF c.a.kind = "Mobile" /\ c.b.kind = "Wall"
                THEN c.mtv = IF d.some THEN d.v ELSE <<0, 0>>
                ELSE c.mtv = <<0, 0>>

C9_Witness ==
    /\ pc = "gathered"
    /\ \E k \in DOMAIN Produced :
         /\ Produced[k].b.kind # "Wall"
         /\ rect_displacement(RectOf(Produced[k].a),
                              RectOf(Produced[k].b)).some
    /\ \E k \in DOMAIN Produced :
         /\ Produced[k].b.kind = "Wall"
         /\ Produced[k].mtv # <<0, 0>>

(***************************************************************************)
(* C10: gather_contacts only appends: the contacts in the buffer before    *)
(* the call remain, unchanged and in order, as a prefix of the buffer      *)
(* after it, and the four pools are not modified.                          *)
(***************************************************************************)
C10_AppendOnly ==
    [][(pc = "gather" /\ pc' = "gathered") =>
          /\ Len(contacts') >= Len(contacts)
          /\ SubSeq(contacts', 1, Len(contacts)) = contacts
          /\ terrains' = terrains /\ mobiles' = mobiles
          /\ walls' = walls /\ projs' = projs]_vars

C10_Witness ==
    /\ pc = "gathered"
    /\ into0 # <<>>
    /\ Len(contacts) > Len(into0)
    /\ SubSeq(contacts, 1, Len(into0)) = into0

(***************************************************************************)
(* Vocabulary of the properties of handle_contact.                         *)
(***************************************************************************)
SquaredMagnitude(c) == c.mtv[1] * c.mtv[1] + c.mtv[2] * c.mtv[2]

IsKind(c, ka, kb) == c.a.kind = ka /\ c.b.kind = kb

\* handle_contact has sorted the list it was given
Sorted == last.op \in {"sort", "restitute", "resolve", "prune"}

\* the contact the last step of a loop was about
LastContact == contacts[last.k]

\* C11: once restitute has sorted the list, squared MTV magnitudes never
\* increase along it, and the loop that applies the corrections reaches a
\* contact only after every contact of larger magnitude.
C11_LargestFirst ==
    /\ Sorted =>
         \A i, j \in DOMAIN contacts :
            i < j => SquaredMagnitude(contacts[i])
                       >= SquaredMagnitude(contacts[j])
    /\ last.op = "restitute" =>
         \A j \in DOMAIN contacts :
            SquaredMagnitude(contacts[j]) > SquaredMagnitude(LastContact)
               => j < last.k

\* the second correction of a mobile is the smaller one although its wall
\* comes first in the pools
C11_Witness ==
    /\ last.op = "restitute" /\ last.k = 2
    /\ IsKind(contacts[1], "Mobile", "Wall")
    /\ IsKind(contacts[2], "Mobile", "Wall")
    /\ contacts[1].a = contacts[2].a
    /\ contacts[1].b.idx > contacts[2].b.idx
    /\ SquaredMagnitude(contacts[1]) > SquaredMagnitude(contacts[2])
    /\ prev.mobiles # entry.mobiles
    /\ mobiles # prev.mobiles

\* C12: the sort of restitute is stable: the contacts of any one squared
\* magnitude, the zero-MTV contacts among them, stand after the sort in
\* the order gather_contacts pushed them.
C12_EqualKeepOrder ==
    last.op = "sort" =>
       \A c \in {prev.contacts[i] : i \in DOMAIN prev.contacts} :
          SelectSeq(contacts,
                    LAMBDA d : SquaredMagnitude(d) = SquaredMagnitude(c))
            = SelectSeq(prev.contacts,
                        LAMBDA d : SquaredMagnitude(d) = SquaredMagnitude(c))

\* the sign restitute multiplies by: -1 below zero, +1 from zero up
Sign(v) == IF v < 0 THEN 0 - 1 ELSE 1

\* the last step was restitute's, on a Mobile-Wall contact
WallStep == last.op = "restitute" /\ IsKind(LastContact, "Mobile", "Wall")

\* the mobile of the last step's contact, before the step and after it
Before == prev.mobiles[LastContact.a.idx + 1]
After == mobiles[LastContact.a.idx + 1]

\* C13: the step of restitute on a Mobile-Wall contact with MTV (mx, my)
\* moves the mobile, rectangle and sprite, by exactly
\* (-mx * sign(vx), -my * sign(vy + 1)), with vx and vy read as the step
\* begins; a mobile moving right with an MTV along x ends that far left.
C13_WallCorrection ==
    WallStep =>
       LET mx == LastContact.mtv[1]
           my == LastContact.mtv[2]
           dx == (0 - mx) * Sign(Before.collider.vx)
           dy == (0 - my) * Sign(Before.collider.vy + 1)
       IN  /\ After.collider.rect =
                 Rect(Before.collider.rect.x + dx, Before.collider.rect.y + dy,
                      Before.collider.rect.w, Before.collider.rect.h)
           /\ After.sprite.position =
                 <<Before.sprite.position[1] + dx,
                   Before.sprite.position[2] + dy>>
           /\ (Before.collider.vx > 0 /\ my = 0) =>
                 /\ After.collider.rect.x = Before.collider.rect.x - mx
                 /\ After.collider.rect.y = Before.collider.rect.y

\* a mobile moving right is put back left by an MTV along x
C13_Witness ==
    /\ WallStep
    /\ Before.collider.vx > 0
    /\ LastContact.mtv[1] > 0 /\ LastContact.mtv[2] = 0
    /\ After.collider.rect.x = Before.collider.rect.x - LastContact.mtv[1]

\* C14: the step of restitute on a Mobile-Wall contact leaves the mobile
\* with vx = 0 if the MTV's x component is not zero and with its vx
\* otherwise, and with vy = -1 if the y component is not zero and with its
\* vy otherwise.
C14_WallVelocity ==
    WallStep =>
       /\ After.collider.vx =
             IF LastContact.mtv[1] # 0 THEN 0 ELSE Before.collider.vx
       /\ After.collider.vy =
             IF LastContact.mtv[2] # 0 THEN 0 - 1 ELSE Before.collider.vy

\* a mobile moving sideways and down is corrected along y: vy becomes the
\* scroll speed and vx stays
C14_Witness ==
    /\ WallStep
    /\ LastContact.mtv[1] = 0 /\ LastContact.mtv[2] # 0
    /\ Before.collider.vx # 0 /\ Before.collider.vy > 0
    /\ After.collider.vx = Before.collider.vx
    /\ After.collider.vy = 0 - 1

\* the wall of the last step's contact
LastWall == walls[LastContact.b.idx + 1]

\* C15: once restitute has processed a Mobile-Wall contact of this tick,
\* the rectangle of that mobile and the rectangle of that wall have no
\* point in common, whatever the signs of the mobile's velocity.
C15_SeparatedFromWall ==
    WallStep => ~SharePoint(After.collider.rect, LastWall.rect)

\* mobile m with the origin of its rectangle, its sprite position and its
\* velocity replaced by those of mobile n
WithMotionOf(m, n) ==
    [m EXCEPT !.collider.rect.x = n.collider.rect.x,
              !.collider.rect.y = n.collider.rect.y,
              !.collider.vx = n.collider.vx,
              !.collider.vy = n.collider.vy,
              !.sprite.position = n.sprite.position]

\* mobile i (counted from 0) is side a of a Mobile-Wall contact of the list
NamedAgainstWall(i) ==
    \E k \in DOMAIN contacts :
       IsKind(contacts[k], "Mobile", "Wall") /\ contacts[k].a.idx = i

\* C16: restitute (its sort and every step of its loop) changes nothing
\* but the position and the velocity of the mobile named as side a of the
\* Mobile-Wall contact in hand; a step on a contact of another kind leaves
\* every mobile as it was; no hp and no terrain changes, and by the end of
\* restitute a mobile that no Mobile-Wall contact names is as it came.
C16_RestituteFrame ==
    last.op \in {"sort", "restitute"} =>
       /\ terrains = prev.terrains /\ terrains = entry.terrains
       /\ projs = prev.projs /\ projs = entry.projs
       /\ DOMAIN mobiles = DOMAIN prev.mobiles
       /\ \A i \in DOMAIN mobiles :
             /\ WithMotionOf(mobiles[i], prev.mobiles[i]) = prev.mobiles[i]
             /\ mobiles[i].collider.hp = entry.mobiles[i].collider.hp
             /\ mobiles[i] # prev.mobiles[i] =>
                   WallStep /\ LastContact.a.idx = i - 1
             /\ ~NamedAgainstWall(i - 1) => mobiles[i] = entry.mobiles[i]

\* restitute is through with a list that holds a Mobile-Mobile contact: the
\* player has been moved off a wall, the enemy under it is as it came
C16_Witness ==
    /\ last.op = "restitute" /\ pc = "resolve"
    /\ Len(mobiles) = 2
    /\ mobiles[1].collider.rect # entry.mobiles[1].collider.rect
    /\ ~NamedAgainstWall(1)
    /\ mobiles[2] = entry.mobiles[2]
    /\ \E k \in DOMAIN contacts : IsKind(contacts[k], "Mobile", "Mobile")

\* the hit points held in pools p, pool by pool
HitPoints(p) ==
    [terrains |-> [i \in DOMAIN p.terrains |-> p.terrains[i].collider.hp],
     mobiles |-> [i \in DOMAIN p.mobiles |-> p.mobiles[i].collider.hp],
     projs |-> [i \in DOMAIN p.projs |-> p.projs[i].hp]]

PoolSizes(p) == <<Len(p.terrains), Len(p.mobiles), Len(p.projs)>>

\* where the mobiles are and how they move
Motion(ms) ==
    [i \in DOMAIN ms |-> <<ms[i].collider.rect, ms[i].collider.vx,
                          ms[i].collider.vy, ms[i].sprite.position>>]

\* C17: inside one handle_contact, no hp differs from its value at the
\* call for as long as restitute runs, no mobile is moved once the hp rules
\* have begun, no collider leaves a pool before the hp rules have gone
\* through every contact, and the removal changes no mobile that stays.
C17_RestituteRulesPrune ==
    /\ (last.op \in {"sort", "restitute"} \/ pc \in {"sort", "restitute"}) =>
          /\ HitPoints(Snapshot) = HitPoints(entry)
          /\ PoolSizes(Snapshot) = PoolSizes(entry)
    /\ last.op = "resolve" =>
          /\ Motion(mobiles) = Motion(prev.mobiles)
          /\ PoolSizes(Snapshot) = PoolSizes(entry)
    /\ (Sorted /\ PoolSizes(Snapshot) # PoolSizes(entry)) =>
          last.op = "prune" /\ pc = "done"
    /\ last.op = "prune" =>
          \A i \in DOMAIN mobiles :
             \E j \in DOMAIN prev.mobiles : mobiles[i] = prev.mobiles[j]

\* a whole handle_contact in which a mobile was moved off a wall, then lost
\* hp, and then a mobile was removed
C17_Witness ==
    /\ last.op = "prune" /\ pc = "done"
    /\ Len(mobiles) < Len(entry.mobiles)
    /\ mobiles[1].collider.rect # entry.mobiles[1].collider.rect
    /\ mobiles[1].collider.hp < entry.mobiles[1].collider.hp

\* the last step was a step of the hp rules, on a contact of kinds ka, kb
RuleStep(ka, kb) == last.op = "resolve" /\ IsKind(LastContact, ka, kb)

\* hp of the mobile of index i (from 0) before the last step and after it
MobileHpBefore(i) == prev.mobiles[i + 1].collider.hp
MobileHpAfter(i) == mobiles[i + 1].collider.hp

PlayerInvolved ==
    \/ prev.mobiles[LastContact.a.idx + 1].collider.is_player
    \/ prev.mobiles[LastContact.b.idx + 1].collider.is_player

\* what the Mobile-Mobile rule leaves of hp own against hp other: nothing
\* when own is strictly lower, own less 30 and not below 0 otherwise
AfterClash(own, other) ==
    IF own < other THEN 0 ELSE IF own >= 30 THEN own - 30 ELSE 0

\* C19: the hp rule for a Mobile-Mobile contact with the player on a side
\* sets the side of strictly lower hp to 0 and takes 30, floored at 0, from
\* the side of higher or equal hp; with equal hp neither side is the
\* strictly lower one.
C19_LowerDiesOtherLoses30 ==
    (RuleStep("Mobile", "Mobile") /\ PlayerInvolved) =>
       LET ha == MobileHpBefore(LastContact.a.idx)
           hb == MobileHpBefore(LastContact.b.idx)
       IN  /\ MobileHpAfter(LastContact.a.idx) = AfterClash(ha, hb)
           /\ MobileHpAfter(LastContact.b.idx) = AfterClash(hb, ha)

\* C20: the hp rule for a Mobile-Mobile contact between two mobiles that
\* are not the player changes the hp of neither, nor any other hp.
C20_EnemiesSpareEachOther ==
    (RuleStep("Mobile", "Mobile") /\ ~PlayerInvolved) =>
       /\ MobileHpAfter(LastContact.a.idx) = MobileHpBefore(LastContact.a.idx)
       /\ MobileHpAfter(LastContact.b.idx) = MobileHpBefore(LastContact.b.idx)
       /\ HitPoints(Snapshot) = HitPoints(prev)

\* two enemies of different hp, both with hp left, have gone through their
\* contact
C20_Witness ==
    /\ RuleStep("Mobile", "Mobile") /\ ~PlayerInvolved
    /\ MobileHpBefore(LastContact.a.idx) > MobileHpBefore(LastContact.b.idx)
    /\ MobileHpBefore(LastContact.b.idx) > 0
    /\ MobileHpAfter(LastContact.a.idx) = MobileHpBefore(LastContact.a.idx)
    /\ MobileHpAfter(LastContact.b.idx) = MobileHpBefore(LastContact.b.idx)

\* hp of the terrain of index i (from 0) before the last step and after it
TerrainHpBefore(i) == prev.terrains[i + 1].collider.hp
TerrainHpAfter(i) == terrains[i + 1].collider.hp

\* the payload of the projectile of the last step's contact as the step began
Payload == prev.projs[LastContact.a.idx + 1].hp

\* hp h after damage d: h - d, and 0 when that would be below 0
Floored(h, d) == IF h >= d THEN h - d ELSE 0

\* C21: a projectile of payload d that hits a mobile, or a destructible
\* terrain, of hp h leaves it with h - d if h >= d and with exactly 0
\* otherwise, never with less than 0; a target at hp 0 stays at 0.
C21_DamageFloor ==
    /\ RuleStep("Projectile", "Mobile") =>
          /\ MobileHpAfter(LastContact.b.idx)
                = Floored(MobileHpBefore(LastContact.b.idx), Payload)
          /\ MobileHpAfter(LastContact.b.idx) >= 0
          /\ MobileHpBefore(LastContact.b.idx) = 0
                => MobileHpAfter(LastContact.b.idx) = 0
    /\ (RuleStep("Projectile", "Terrain")
          /\ prev.terrains[LastContact.b.idx + 1].collider.destructible) =>
          /\ TerrainHpAfter(LastContact.b.idx)
                = Floored(TerrainHpBefore(LastContact.b.idx), Payload)
          /\ TerrainHpAfter(LastContact.b.idx) >= 0
          /\ TerrainHpBefore(LastContact.b.idx) = 0
                => TerrainHpAfter(LastContact.b.idx) = 0

\* a mobile with less hp than the payload is left with 0
C21_Witness ==
    /\ RuleStep("Projectile", "Mobile")
    /\ MobileHpBefore(LastContact.b.idx) > 0
    /\ MobileHpBefore(LastContact.b.idx) < Payload
    /\ MobileHpAfter(LastContact.b.idx) = 0

\* handle_contact is running or has just returned
InHandle == last.op \in {"sort", "restitute", "resolve", "prune"}

Indestructible(ts) == SelectSeq(ts, LAMBDA t : ~t.collider.destructible)

\* C22: the hp rule for a Projectile-Terrain contact takes the payload
\* from the terrain's hp only if the terrain is destructible; a terrain
\* that is not destructible keeps its hp through every step of
\* handle_contact, whatever hits it, and is in the pool at the return.
C22_OnlyDestructibleDamaged ==
    /\ RuleStep("Projectile", "Terrain") =>
          TerrainHpAfter(LastContact.b.idx) =
             IF prev.terrains[LastContact.b.idx + 1].collider.destructible
             THEN Floored(TerrainHpBefore(LastContact.b.idx), Payload)
             ELSE TerrainHpBefore(LastContact.b.idx)
    /\ InHandle =>
          [i \in DOMAIN Indestructible(terrains) |->
               Indestructible(terrains)[i].collider.hp]
            = [i \in DOMAIN Indestructible(entry.terrains) |->
                 Indestructible(entry.terrains)[i].collider.hp]

\* handle_contact has returned after a live projectile hit a terrain that
\* is not destructible: the terrain is there with the hp it had
C22_Witness ==
    /\ last.op = "prune"
    /\ \E k \in DOMAIN contacts :
          /\ IsKind(contacts[k], "Projectile", "Terrain")
          /\ ~entry.terrains[contacts[k].b.idx + 1].collider.destructible
          /\ entry.projs[contacts[k].a.idx + 1].hp > 0
          /\ \A j \in 1..(k - 1) : contacts[j].a # contacts[k].a
    /\ Len(Indestructible(terrains)) = Len(entry.terrains)
    /\ Len(projs) < Len(entry.projs)

\* C23: every Projectile-Terrain contact gives the sprite of its terrain
\* exactly one "hit" input, whether the terrain is destructible or not.
C23_HitTriggerAlways ==
    RuleStep("Projectile", "Terrain") =>
       terrains[LastContact.b.idx + 1].sprite.hits
          = prev.terrains[LastContact.b.idx + 1].sprite.hits + 1

\* the k-th smallest member of the set of indices K
KthOf(K, k) == CHOOSE i \in K : Cardinality({j \in K : j <= i}) = k

\* the elements of sequence before at the indices in K, in their order
Pick(before, K) == [k \in 1..Cardinality(K) |-> before[KthOf(K, k)]]

\* the projectiles (indices from 1) that are side a of a contact of the list
HitProjectiles ==
    {i \in DOMAIN entry.projs :
        \E k \in DOMAIN contacts : contacts[k].a = ProjectileID(i - 1)}

\* C24: once the hp rules have gone through the list, every projectile
\* that is side a of a Projectile-Terrain or Projectile-Mobile contact has
\* hp 0, destructible terrain or not, and at the return of handle_contact
\* the projectile pool holds the other projectiles and only them.
C24_ProjectilesConsumed ==
    /\ (last.op = "resolve" /\ pc = "prune") =>
          \A i \in HitProjectiles : projs[i].hp = 0
    /\ last.op = "prune" =>
          projs = Pick(entry.projs, DOMAIN entry.projs \ HitProjectiles)

\* a projectile whose only contact is with a terrain that is not
\* destructible is gone at the return
C24_Witness ==
    /\ last.op = "prune"
    /\ Len(entry.projs) = 1 /\ entry.projs[1].hp > 0
    /\ HitProjectiles = {1}
    /\ \A k \in DOMAIN contacts :
          contacts[k].a.kind = "Projectile" =>
             /\ contacts[k].b.kind = "Terrain"
             /\ ~entry.terrains[contacts[k].b.idx + 1].collider.destructible
    /\ projs = <<>>

\* handle_contact has just returned; prev holds the pools as the hp rules
\* left them
Returned == last.op = "prune" /\ ret.returned

\* C25: the flag handle_contact returns is (mobiles[0].hp != 0) as the hp
\* rules left it, before anything is removed; with a Mobile-Terrain
\* contact of the player in the list the flag is false.
C25_PlayerAliveFlag ==
    last.op = "prune" =>
       /\ ret.returned
       /\ ret.player_is_alive = (prev.mobiles[1].collider.hp # 0)
       /\ (\E k \in DOMAIN contacts :
              /\ IsKind(contacts[k], "Mobile", "Terrain")
              /\ contacts[k].a = MobileID(0))
            => ~ret.player_is_alive

\* a player that entered with hp left and touched terrain is reported dead
C25_Witness ==
    /\ Returned
    /\ entry.mobiles[1].collider.hp > 0
    /\ \E k \in DOMAIN contacts :
          /\ IsKind(contacts[k], "Mobile", "Terrain")
          /\ contacts[k].a = MobileID(0)
    /\ ~ret.player_is_alive

\* C27: at the return of handle_contact the terrain pool is the terrains
\* the hp rules left with hp > 0, the mobile pool the mobiles left with
\* hp > 0 or is_player, the projectile pool the projectiles left with
\* hp > 0, each in the order they had; no pool ever grows inside
\* handle_contact.
C27_PoolsAfterReturn ==
    /\ last.op = "prune" =>
          /\ terrains = Pick(prev.terrains,
                {i \in DOMAIN prev.terrains : prev.terrains[i].collider.hp > 0})
          /\ mobiles = Pick(prev.mobiles,
                {i \in DOMAIN prev.mobiles :
                    \/ prev.mobiles[i].collider.hp > 0
                    \/ prev.mobiles[i].collider.is_player})
          /\ projs = Pick(prev.projs,
                {i \in DOMAIN prev.projs : prev.projs[i].hp > 0})
    /\ InHandle =>
          /\ Len(terrains) <= Len(entry.terrains)
          /\ Len(mobiles) <= Len(entry.mobiles)
          /\ Len(projs) <= Len(entry.projs)

\* of two enemies the first is left without hp and removed; the player and
\* the second enemy stay, in that order
C27_Witness ==
    /\ Returned
    /\ Len(prev.mobiles) = 3
    /\ prev.mobiles[2].collider.hp = 0
    /\ prev.mobiles[3].collider.hp > 0
    /\ mobiles = <<prev.mobiles[1], prev.mobiles[3]>>

\* C28: the count handle_contact returns is the length of the mobile
\* pool before the removal less its length after, which is the number of
\* mobiles other than the player that the hp rules left with hp 0.
C28_RemovedCount ==
    last.op = "prune" =>
       /\ ret.removed = Len(prev.mobiles) - Len(mobiles)
       /\ ret.removed =
             Cardinality({i \in DOMAIN prev.mobiles :
                             /\ ~prev.mobiles[i].collider.is_player
                             /\ prev.mobiles[i].collider.hp = 0})

\* the player and one enemy are both left without hp: the count is 1
C28_Witness ==
    /\ Returned
    /\ Len(prev.mobiles) = 2
    /\ prev.mobiles[1].collider.hp = 0
    /\ prev.mobiles[2].collider.hp = 0
    /\ ret.removed = 1
    /\ Len(mobiles) = 1

\* the pools p after the hp rules have gone through the contacts cs from
\* first to last
RECURSIVE ResolvedInOrder(_, _)
ResolvedInOrder(p, cs) ==
    IF cs = <<>>
    THEN p
    ELSE ResolvedInOrder(resolve_contact(p, Head(cs)), Tail(cs))

\* C29: whatever the order in which the hp rules meet the contacts of one
\* list, handle_contact leaves the same hp values and pools and returns
\* the same pair as it does for the order in which they were generated.
C29_OrderIndependent ==
    last.op = "prune" =>
       LET generated == retain_live(ResolvedInOrder(entry, entry.contacts))
       IN  /\ HitPoints(Snapshot) = HitPoints(generated)
           /\ PoolSizes(Snapshot) = PoolSizes(generated)
           /\ ret.player_is_alive = generated.player_is_alive
           /\ ret.removed = generated.removed

\* C26: through the ticks of a game (enemies spawned, mobiles moved,
\* contacts gathered and handled) the pool of mobiles holds exactly one
\* player, as its first element, and the removal of the dead leaves that
\* element where it is whatever its hp.
C26_OnePlayerInFront ==
    /\ Len(mobiles) >= 1
    /\ mobiles[1].collider.is_player
    /\ \A i \in 2..Len(mobiles) : ~mobiles[i].collider.is_player
    /\ last.op = "prune" => mobiles[1] = prev.mobiles[1]

\* a later tick of a game whose player has lost its hp: the player is
\* still the first mobile after the dead have been removed again
C26_Witness ==
    /\ last.op = "prune"
    /\ game.game_over
    /\ game.ticks >= 2
    /\ prev.mobiles[1].collider.hp = 0
    /\ mobiles[1].collider.is_player
    /\ mobiles[1].collider.hp = 0

\* the contacts of cs that name terrain i as the side a projectile hit
HitsOn(cs, i) ==
    {k \in DOMAIN cs : /\ IsKind(cs[k], "Projectile", "Terrain")
                       /\ cs[k].b.idx = i - 1}

\* the contacts of cs that projectile a is a side of
ContactsOf(cs, a) ==
    {k \in DOMAIN cs : cs[k].a = ProjectileID(a)}

\* terrain i of the pools handle_contact received is destructible, has hp
\* left, and is hit in this call by one projectile that hits nothing else
UnderFire(i) ==
    /\ entry.terrains[i].collider.destructible
    /\ entry.terrains[i].collider.hp > 0
    /\ Cardinality(HitsOn(entry.contacts, i)) = 1
    /\ \A k \in HitsOn(entry.contacts, i) :
          ContactsOf(entry.contacts, entry.contacts[k].a.idx) = {k}

\* the payload of the projectile that hits terrain i in this call
PayloadOn(i) ==
    LET k == CHOOSE k \in HitsOn(entry.contacts, i) : TRUE
    IN  entry.projs[entry.contacts[k].a.idx + 1].hp

\* C30: a destructible terrain that one projectile hits in a tick loses
\* the payload (at most all its hp) and is given one "hit" input; it is in
\* the pool at the end of the tick if it has hp left and gone from it if
\* it has none, tick after tick.
C30_RockUnderFire ==
    last.op = "prune" =>
       \A i \in DOMAIN entry.terrains :
          UnderFire(i) =>
             LET before == entry.terrains[i]
                 hit == prev.terrains[i]
                 left == Floored(before.collider.hp, PayloadOn(i))
                 there == {j \in DOMAIN terrains :
                              terrains[j].collider.rect = before.collider.rect}
             IN  /\ hit.collider.hp = left
                 /\ hit.sprite.hits = before.sprite.hits + 1
                 /\ left > 0 => \E j \in there : terrains[j] = hit
                 /\ left = 0 => there = {}

\* the fourth tick in a row in which a projectile hits the rock that had 16
\* hp: it went to 12, 8 and 4 and stayed, now it has none and is removed
C30_Witness ==
    /\ last.op = "prune"
    /\ game.ticks = 3
    /\ Len(entry.terrains) = 1
    /\ UnderFire(1)
    /\ entry.terrains[1].collider.hp = ProjectileHp
    /\ entry.terrains[1].sprite.hits = 3
    /\ prev.terrains[1].collider.hp = 0
    /\ prev.terrains[1].sprite.hits = 4
    /\ terrains = <<>>

\* the pool an id points into
PoolOf(id) ==
    CASE id.kind = "Terrain" -> terrains
      [] id.kind = "Mobile" -> mobiles
      [] id.kind = "Projectile" -> projs
      [] id.kind = "Wall" -> walls

InBounds(id) == id.idx \in Indices(PoolOf(id))

\* handle_contact has contacts of the list still to go through
Consuming == pc \in {"gathered", "sort", "restitute", "resolve"}

\* C31: while restitute and the hp rules go through the list that
\* gather_contacts made in this tick, both ids of every contact in it point
\* inside their pools; and the list that gather_contacts is handed is
\* empty, so nothing of a list survives the removal of the dead into the
\* next tick.
C31_IndicesInBounds ==
    /\ Consuming =>
          \A k \in DOMAIN contacts :
             InBounds(contacts[k].a) /\ InBounds(contacts[k].b)
    /\ pc = "gather" => contacts = <<>>

\* the list of the tick before names a mobile that the removal of the dead
\* has taken from the pool; this tick has a list of its own to go through
C31_Witness ==
    /\ pc = "gathered"
    /\ last.op = "head"
    /\ contacts # <<>>
    /\ \E k \in DOMAIN prev.contacts :
          /\ prev.contacts[k].b.kind = "Mobile"
          /\ prev.contacts[k].b.idx >= Len(prev.mobiles)

\* the contact just resolved is not the first of its projectile in the list
LaterContactOfProjectile ==
    /\ last.op = "resolve"
    /\ LastContact.a.kind = "Projectile"
    /\ \E j \in 1..(last.k - 1) : contacts[j].a = LastContact.a

\* C32: a projectile has hp 0 once the hp rules have resolved a contact of
\* it, so every later contact of the same projectile in the list finds it
\* at 0 and leaves all hp values as they are: only the first target in the
\* order of the list is damaged.
C32_OnlyFirstTargetDamaged ==
    /\ (last.op = "resolve" /\ LastContact.a.kind = "Projectile") =>
          projs[LastContact.a.idx + 1].hp = 0
    /\ LaterContactOfProjectile =>
          /\ prev.projs[LastContact.a.idx + 1].hp = 0
          /\ HitPoints(Snapshot) = HitPoints(prev)

\* a projectile over the player and a terrain: the first of its two
\* contacts has cost its target the payload, the second leaves a target
\* with hp as it was
C32_Witness ==
    /\ LaterContactOfProjectile
    /\ last.k = 2
    /\ contacts[1].b.kind # LastContact.b.kind
    /\ entry.projs[LastContact.a.idx + 1].hp = ProjectileHp
    /\ HitPoints(prev) # HitPoints(entry)
    /\ \/ /\ LastContact.b.kind = "Mobile"
          /\ MobileHpAfter(LastContact.b.idx) = PlayerHp
       \/ /\ LastContact.b.kind = "Terrain"
          /\ TerrainHpAfter(LastContact.b.idx) = RockHp

\* C33: whenever handle_contact has reported the player not alive, the
\* count it returned is at least 1, so that the scores_gained - 1 of the
\* score update is not negative, and the update never panics.
C33_ScoreNeverUnderflows ==
    /\ (pc = "done" /\ ~ret.player_is_alive) => ret.removed - 1 >= 0
    /\ pc # "panicked"

\* C34: the pool never holds more than 5 mobiles; while the Rocks stage
\* is spawning enemies it holds fewer than 5, and spawning starts again
\* only with a pool of 1.
C34_AtMostFiveMobiles ==
    /\ [](/\ Len(mobiles) <= 5
          /\ game.stage.spawning_enemies => Len(mobiles) < 5)
    /\ [][(~game.stage.spawning_enemies /\ game'.stage.spawning_enemies)
             => Len(mobiles') = 1]_vars

\* the fourth enemy has just been spawned and spawning has stopped
C34_Witness ==
    /\ last.op = "head"
    /\ Len(prev.mobiles) = 4
    /\ Len(mobiles) = 5
    /\ game.stage = Rocks(FALSE, 1)

\* the sprite of entity e is drawn where its collider is
DrawnWhereItCollides(e) ==
    e.sprite.position = <<e.collider.rect.x, e.collider.rect.y>>

\* C35: through the ticks of a game, with mobiles moved by their
\* velocities and pushed back by walls, the sprite of every mobile and of
\* every terrain is at the origin of its collider's rectangle.
C35_SpriteOnCollider ==
    /\ \A i \in DOMAIN mobiles : DrawnWhereItCollides(mobiles[i])
    /\ \A i \in DOMAIN terrains : DrawnWhereItCollides(terrains[i])

\* a wall has just pushed the player back, in a tick that had moved it first
C35_Witness ==
    /\ last.op = "restitute"
    /\ IsKind(LastContact, "Mobile", "Wall")
    /\ LastContact.a = MobileID(0)
    /\ mobiles[1].collider.rect # prev.mobiles[1].collider.rect
    /\ mobiles[1].position # mobiles[1].sprite.position
    /\ DrawnWhereItCollides(mobiles[1])

\* the contacts of a mobile with a wall among those appended
WallContacts ==
    {k \in DOMAIN Produced : IsKind(Produced[k], "Mobile", "Wall")}

\* C36 as stated: every contact of a mobile with a wall that
\* gather_contacts appends carries a displacement other than (0, 0),
\* whatever the extents of the two rectangles.
C36_WallMtvNonzero ==
    pc = "gathered" =>
       \A k \in WallContacts : Produced[k].mtv # <<0, 0>>

\* C36 for rectangles that have an interior: a contact of a mobile with a
\* wall carries a displacement other than (0, 0) when both rectangles have
\* positive extents, and carries (0, 0) only for two rectangles that have
\* no point in common.
C36_WallMtvNonzeroWithExtents ==
    pc = "gathered" =>
       \A k \in WallContacts :
          LET m == RectOf(Produced[k].a)
              w == RectOf(Produced[k].b)
          IN  /\ (PositiveExtents(m) /\ PositiveExtents(w))
                    => Produced[k].mtv # <<0, 0>>
              /\ Produced[k].mtv = <<0, 0>> => ~SharePoint(m, w)

\* the player, 2 by 1, is in contact with a wall that has an interior
C36_Witness ==
    /\ pc = "gathered"
    /\ \E k \in WallContacts :
          /\ Produced[k].a = MobileID(0)
          /\ PositiveExtents(RectOf(Produced[k].b))
          /\ Produced[k].mtv # <<0, 0>>

=============================================================================
